---- MODULE Spec2Model ----
(***************************************************************************)
(* A model of the pricing-page discovery and extraction pipeline of        *)
(* PricingV2Service (src/unnamed/part_009): URL normalisation and          *)
(* validation, the three-stage ExtractPricing orchestration, the browser   *)
(* pass, and the deduplication / merging of extracted plans.               *)
(*                                                                         *)
(* Go strings that the code inspects (plan names, price strings, billing   *)
(* periods, URLs) are sequences of one-character strings, so that          *)
(* lower-casing, trimming, suffix stripping, number scanning, formatting   *)
(* and byte-wise comparison are computed and not assumed.                  *)
(***************************************************************************)
EXTENDS Integers, Sequences, FiniteSets, TLC

VARIABLES
    dpc,      \* deduplication harness: "start", "once", "twice"
    dIn,      \* the list handed to deduplicatePlans
    dOut1,    \* deduplicatePlans(dIn)
    dOut2,    \* deduplicatePlans(dOut1)
    upc,      \* URL harness: "start", "normalized", "validated"
    uRaw,     \* the URL string under test
    uErr,     \* the error validateURL returned ("nil" for none)
    \* one request to the service
    pc,             \* where the handler stands
    req,            \* [kind, url, keyConfigured]
    resp,           \* the response returned, once pc = "done"
    websiteURL,     \* DiscoverPricingPage: the normalised URL
    candidates,     \* DiscoverPricingPage: candidates
    candidateScores,\* DiscoverPricingPage: candidateScores
    probed,         \* the candidates found by probing a common path
    \* ExtractPricing's locals
    hasToggle, plans, periods, warnings, needsRender,
    \* extractWithBrowserRender's locals and results
    session,        \* the browser context: "none", "open", "closed"
    ctxExpired,     \* the 60-second browser context has expired
    defaultText, monthlyTab, yearlyTab, attempt,
    monthlyClicked, yearlyClicked, monthlyText, yearlyText,
    bWarnings, bPlans, bPeriods, bErr,
    \* history of the request, kept to state properties
    validated,      \* the URL strings handed to validateURL
    netOps,         \* the network operations issued, in order
    staticPlans,    \* the static pass's deduplicated plans
    staticPeriods,  \* the static pass's periods
    recorded,       \* every warning code a stage recorded, in order
    llmCalls,       \* calls of extractWithLLM
    resultFrom,     \* which pass the response's plans come from
    clicks,         \* clicks issued, per side
    sections,       \* the labelled sections of the browser pass's content
    browserPasses,  \* calls of extractWithBrowserRender
    staticWarnings, \* the warnings at the end of the static pass
    failedAt,       \* the stage that answered with an error, "" for none
    \* SavePlans / GetSavedPlans
    store,          \* the documents of the saved-plans collection
    spc,            \* per call of SavePlans: where it stands
    sreq,           \* per call: [userID, plans]
    sresp,          \* per call: the response returned
    atStart,        \* per call: GetSavedPlans of its user when the call began
    atReturn,       \* per call: GetSavedPlans of its user when the call returned
    between,        \* per call: another call wrote while this one ran
    \* concurrent requests of ExtractPricing and their browser sessions
    cpc,            \* per request: where it stands
    csess,          \* per request: the browser session of its pass, 0 for none
    cexpired,       \* per request: the 60 seconds of its browser context ran out
    cexit,          \* per request: how its browser pass ended
    live,           \* the browser sessions that exist
    ranOn,           \* <<session, request>>: the request ran a command on the session
    nextSession,    \* the number of the next session
    \* findBillingTabs and textSimilarity on their own
    tpc,            \* where the call stands
    tabsIn,         \* the candidates the page script returned
    tabsOut,        \* what findBillingTabs answered
    simIn,          \* the two texts given to textSimilarity
    simOut          \* textSimilarity of the two texts, in both orders

dvars == <<dpc, dIn, dOut1, dOut2>>
uvars == <<upc, uRaw, uErr>>
rvars == <<pc, req, resp>>
dpvars == <<websiteURL, candidates, candidateScores, probed>>
evars == <<hasToggle, plans, periods, warnings, needsRender>>
bvars == <<session, ctxExpired, defaultText, monthlyTab, yearlyTab, attempt,
           monthlyClicked, yearlyClicked, monthlyText, yearlyText,
           bWarnings, bPlans, bPeriods, bErr>>
hvars == <<validated, netOps, staticPlans, staticPeriods, recorded, llmCalls,
           resultFrom, clicks, sections, browserPasses, staticWarnings, failedAt>>
pvars == <<rvars, dpvars, evars, bvars, hvars>>
svars == <<store, spc, sreq, sresp, atStart, atReturn, between>>
cvars == <<cpc, csess, cexpired, cexit, live, ranOn, nextSession>>
tvars == <<tpc, tabsIn, tabsOut, simIn, simOut>>
vars == <<dvars, uvars, pvars, svars, cvars, tvars>>

\* A harness that is not the one running stays idle.
DIdle == dpc = "idle" /\ dIn = <<>> /\ dOut1 = <<>> /\ dOut2 = <<>>
UIdle == upc = "idle" /\ uRaw = <<>> /\ uErr = ""

\* The zero value of a response (both response types in one record; goErr is
\* the error value returned beside it).
NoResponse ==
    [Error |-> <<>>, Plans |-> <<>>, SourceURL |-> <<>>, DetectedPeriods |-> <<>>,
     NeedsRender |-> FALSE, RenderUsed |-> FALSE, Warnings |-> <<>>,
     PricingCandidates |-> <<>>, SelectedPricingURL |-> <<>>, goErr |-> "nil"]

\* The locals of a request before it starts.
PZero ==
    /\ resp = NoResponse
    /\ websiteURL = <<>> /\ candidates = <<>> /\ candidateScores = <<>>
    /\ probed = <<>>
    /\ hasToggle = FALSE /\ plans = <<>> /\ periods = <<>> /\ warnings = <<>>
    /\ needsRender = FALSE
    /\ session = "none" /\ ctxExpired = FALSE /\ defaultText = ""
    /\ monthlyTab = "" /\ yearlyTab = "" /\ attempt = 0
    /\ monthlyClicked = FALSE /\ yearlyClicked = FALSE
    /\ monthlyText = "" /\ yearlyText = ""
    /\ bWarnings = <<>> /\ bPlans = <<>> /\ bPeriods = <<>> /\ bErr = "nil"
    /\ validated = <<>> /\ netOps = <<>>
    /\ staticPlans = <<>> /\ staticPeriods = <<>> /\ recorded = <<>>
    /\ llmCalls = 0 /\ resultFrom = "none"
    /\ clicks = [monthly |-> 0, yearly |-> 0]
    /\ sections = <<>> /\ browserPasses = 0
    /\ staticWarnings = <<>> /\ failedAt = ""

\* The two calls of SavePlans of the persistence harness.
Calls == {"c1", "c2"}

SIdle ==
    /\ store = {}
    /\ spc = [c \in Calls |-> "idle"]
    /\ sreq = [c \in Calls |-> [userID |-> "", plans |-> <<>>]]
    /\ sresp = [c \in Calls |-> [Error |-> "", SavedCount |-> 0]]
    /\ atStart = [c \in Calls |-> {}]
    /\ atReturn = [c \in Calls |-> {}]
    /\ between = [c \in Calls |-> FALSE]

\* The slots of the concurrent requests.
Reqs == {"r1", "r2"}

CZero ==
    /\ csess = [r \in Reqs |-> 0]
    /\ cexpired = [r \in Reqs |-> FALSE]
    /\ cexit = [r \in Reqs |-> ""]
    /\ live = {}
    /\ ranOn = {}
    /\ nextSession = 1

CIdle ==
    /\ cpc = [r \in Reqs |-> "idle"]
    /\ CZero

TZero ==
    /\ tabsIn = <<>>
    /\ tabsOut = [monthlySelector |-> "", monthlyScore |-> 0,
                  yearlySelector |-> "", yearlyScore |-> 0]
    /\ simIn = << <<>>, <<>> >>
    /\ simOut = << <<1, 1>>, <<1, 1>> >>

TIdle ==
    /\ tpc = "idle"
    /\ TZero

PIdle ==
    /\ pc = "idle"
    /\ req = [kind |-> "none", url |-> <<>>, keyConfigured |-> FALSE]
    /\ PZero

(***************************************************************************)
(* Strings                                                                 *)
(***************************************************************************)

\* The byte value of a character (Go compares strings byte-wise).
Ord(c) ==
    CASE c = " " -> 32 [] c = "$" -> 36 [] c = "," -> 44 [] c = "." -> 46
      [] c = "/" -> 47 [] c = "0" -> 48 [] c = "1" -> 49 [] c = "2" -> 50
      [] c = "3" -> 51 [] c = "4" -> 52 [] c = "5" -> 53 [] c = "6" -> 54
      [] c = "7" -> 55 [] c = "8" -> 56 [] c = "9" -> 57 [] c = ":" -> 58
      [] c = "M" -> 77 [] c = "P" -> 80 [] c = "T" -> 84 [] c = "Y" -> 89
      [] c = "a" -> 97 [] c = "e" -> 101 [] c = "h" -> 104 [] c = "i" -> 105
      [] c = "k" -> 107 [] c = "l" -> 108 [] c = "m" -> 109 [] c = "n" -> 110
      [] c = "o" -> 111 [] c = "p" -> 112 [] c = "r" -> 114 [] c = "t" -> 116
      [] c = "u" -> 117 [] c = "w" -> 119 [] c = "y" -> 121 [] c = "|" -> 124

\* strings.ToLower on one character.
LowerChar(c) ==
    CASE c = "A" -> "a" [] c = "B" -> "b" [] c = "C" -> "c" [] c = "D" -> "d"
      [] c = "E" -> "e" [] c = "F" -> "f" [] c = "G" -> "g" [] c = "H" -> "h"
      [] c = "I" -> "i" [] c = "J" -> "j" [] c = "K" -> "k" [] c = "L" -> "l"
      [] c = "M" -> "m" [] c = "N" -> "n" [] c = "O" -> "o" [] c = "P" -> "p"
      [] c = "Q" -> "q" [] c = "R" -> "r" [] c = "S" -> "s" [] c = "T" -> "t"
      [] c = "U" -> "u" [] c = "V" -> "v" [] c = "W" -> "w" [] c = "X" -> "x"
      [] c = "Y" -> "y" [] c = "Z" -> "z"
      [] OTHER -> c

ToLower(s) == [i \in 1..Len(s) |-> LowerChar(s[i])]

IsSpace(c) == c = " "

IsDigit(c) == c \in {"0", "1", "2", "3", "4", "5", "6", "7", "8", "9"}

RECURSIVE TrimLeft(_)
TrimLeft(s) ==
    IF s # <<>> /\ IsSpace(Head(s)) THEN TrimLeft(Tail(s)) ELSE s

RECURSIVE TrimRight(_)
TrimRight(s) ==
    IF s # <<>> /\ IsSpace(s[Len(s)]) THEN TrimRight(SubSeq(s, 1, Len(s) - 1)) ELSE s

\* strings.TrimSpace
TrimSpace(s) == TrimRight(TrimLeft(s))

\* regexp `\s+` ReplaceAllString(s, " "): every run of white space becomes one space.
RECURSIVE CollapseSpaces(_)
CollapseSpaces(s) ==
    IF s = <<>> THEN <<>>
    ELSE IF IsSpace(Head(s))
         THEN <<" ">> \o CollapseSpaces(TrimLeft(s))
         ELSE <<Head(s)>> \o CollapseSpaces(Tail(s))

HasSuffix(s, suf) ==
    /\ Len(s) >= Len(suf)
    /\ SubSeq(s, Len(s) - Len(suf) + 1, Len(s)) = suf

HasPrefix(s, pre) ==
    /\ Len(s) >= Len(pre)
    /\ SubSeq(s, 1, Len(pre)) = pre

\* strings.TrimSuffix: removes one occurrence of suf at the end, if there.
TrimSuffix(s, suf) ==
    IF HasSuffix(s, suf) THEN SubSeq(s, 1, Len(s) - Len(suf)) ELSE s

\* Go's < on strings: lexicographic on bytes, a proper prefix is smaller.
RECURSIVE StrLess(_, _)
StrLess(a, b) ==
    IF b = <<>> THEN FALSE
    ELSE IF a = <<>> THEN TRUE
    ELSE IF Ord(Head(a)) # Ord(Head(b)) THEN Ord(Head(a)) < Ord(Head(b))
    ELSE StrLess(Tail(a), Tail(b))

\* The decimal digits of a natural number.
DigitChar(d) ==
    CASE d = 0 -> "0" [] d = 1 -> "1" [] d = 2 -> "2" [] d = 3 -> "3" [] d = 4 -> "4"
      [] d = 5 -> "5" [] d = 6 -> "6" [] d = 7 -> "7" [] d = 8 -> "8" [] d = 9 -> "9"

RECURSIVE Itoa(_)
Itoa(n) ==
    IF n < 10 THEN <<DigitChar(n)>> ELSE Itoa(n \div 10) \o <<DigitChar(n % 10)>>

\* fmt.Sprintf("%.2f", x) for an amount x held in thousandths: rounded to
\* hundredths, then integer part, point, two digits.
FormatAmount2(mills) ==
    LET cents == (mills + 5) \div 10
    IN  Itoa(cents \div 100) \o <<".">> \o
        <<DigitChar((cents \div 10) % 10), DigitChar(cents % 10)>>

\* regexp `[\d,]+\.?\d*` FindString: the leftmost match, each part greedy.
RECURSIVE TakeWhileNum(_)
TakeWhileNum(s) ==
    IF s # <<>> /\ (IsDigit(Head(s)) \/ Head(s) = ",")
    THEN <<Head(s)>> \o TakeWhileNum(Tail(s)) ELSE <<>>

RECURSIVE TakeWhileDigit(_)
TakeWhileDigit(s) ==
    IF s # <<>> /\ IsDigit(Head(s))
    THEN <<Head(s)>> \o TakeWhileDigit(Tail(s)) ELSE <<>>

RECURSIVE FindNumber(_)
FindNumber(s) ==
    IF s = <<>> THEN <<>>
    ELSE IF IsDigit(Head(s)) \/ Head(s) = ","
    THEN LET run  == TakeWhileNum(s)
             rest == SubSeq(s, Len(run) + 1, Len(s))
         IN  IF rest # <<>> /\ Head(rest) = "."
             THEN run \o <<".">> \o TakeWhileDigit(Tail(rest))
             ELSE run
    ELSE FindNumber(Tail(s))

\* strings.ReplaceAll(s, ",", "")
RECURSIVE RemoveCommas(_)
RemoveCommas(s) ==
    IF s = <<>> THEN <<>>
    ELSE IF Head(s) = "," THEN RemoveCommas(Tail(s))
    ELSE <<Head(s)>> \o RemoveCommas(Tail(s))

(***************************************************************************)
(* URLs.  A URL string is a sequence of lexical tokens: a scheme word,     *)
(* "://", a host, a ":port", path segments.  ParseURL is net/url's Parse   *)
(* on such a string.                                                       *)
(***************************************************************************)

PathToks == {"/", "/pricing", "/plans", "/billing", "/upgrade", "/subscribe",
             "/pro", "/premium", "/about", "/pricing-info"}

PortToks == {":8080"}

\* Hosts url.Parse rejects (a space in the host name).
InvalidHosts == {"bad host"}

\* getScheme: a first segment that starts with a letter and holds only scheme
\* characters, followed by a colon, is read as the scheme.
StartsWithLetter(h) == h \notin {"127.0.0.1", "0.0.0.0", "10.0.0.5", "169.254.169.254",
                                 "192.168.1.1", "8.8.8.8", "[::1]", "127.0.0.2", "172.16.0.1"}

NoURL == [ok |-> FALSE, Scheme |-> "", Hostname |-> "", Port |-> "", Path |-> <<>>]

\* URL.Hostname(): the host without port and without the brackets of an
\* IPv6 literal.
Hostname(h) == IF h = "[::1]" THEN "::1" ELSE h

ParseAuthority(scheme, rest) ==
    IF rest = <<>> \/ rest[1] \in PathToks
    THEN [ok |-> TRUE, Scheme |-> scheme, Hostname |-> "", Port |-> "", Path |-> rest]
    ELSE IF rest[1] \in InvalidHosts THEN NoURL
    ELSE LET after == Tail(rest)
         IN  IF after # <<>> /\ after[1] = "://"
             \* "host://x": the colon is an empty port, the path starts at "//".
             THEN [ok |-> TRUE, Scheme |-> scheme, Hostname |-> Hostname(rest[1]),
                   Port |-> ":", Path |-> <<"//">> \o Tail(after)]
             ELSE IF after # <<>> /\ after[1] \in PortToks
             THEN [ok |-> TRUE, Scheme |-> scheme, Hostname |-> Hostname(rest[1]),
                   Port |-> after[1], Path |-> Tail(after)]
             ELSE [ok |-> TRUE, Scheme |-> scheme, Hostname |-> Hostname(rest[1]),
                   Port |-> "", Path |-> after]

\* url.Parse
ParseURL(raw) ==
    IF raw = <<>>
    THEN [ok |-> TRUE, Scheme |-> "", Hostname |-> "", Port |-> "", Path |-> <<>>]
    ELSE IF Len(raw) >= 2 /\ raw[2] = "://"
    THEN ParseAuthority(raw[1], SubSeq(raw, 3, Len(raw)))
    ELSE IF raw[1] \in PathToks
    THEN [ok |-> TRUE, Scheme |-> "", Hostname |-> "", Port |-> "", Path |-> raw]
    ELSE IF raw[1] \in InvalidHosts THEN NoURL
    ELSE IF Len(raw) >= 2 /\ raw[2] \in PortToks
    THEN IF StartsWithLetter(raw[1])
         \* "localhost:8080": scheme "localhost", opaque "8080".
         THEN [ok |-> TRUE, Scheme |-> raw[1], Hostname |-> "", Port |-> "",
               Path |-> <<>>]
         \* "first path segment in URL cannot contain colon"
         ELSE NoURL
    \* "example.com/pricing": no scheme, no host, a relative path.
    ELSE [ok |-> TRUE, Scheme |-> "", Hostname |-> "", Port |-> "", Path |-> raw]

\* URL.String() of a URL with a scheme and an authority.
URLString(u) ==
    <<u.Scheme, "://">>
        \o (IF u.Hostname = "" THEN <<>>
            ELSE <<IF u.Hostname = "::1" THEN "[::1]" ELSE u.Hostname>>)
        \o (IF u.Port = ":" /\ u.Path # <<>> /\ u.Path[1] = "//"
            THEN <<"://">> \o Tail(u.Path)
            ELSE (IF u.Port = "" THEN <<>> ELSE <<u.Port>>) \o u.Path)

normalizeURL(rawURL) ==
    IF rawURL = <<>> THEN <<>>
    ELSE LET withScheme ==
                 IF HasPrefix(rawURL, <<"http", "://">>) \/ HasPrefix(rawURL, <<"https", "://">>)
                 THEN rawURL ELSE <<"https", "://">> \o rawURL
             parsed == ParseURL(withScheme)
         IN  IF ~parsed.ok THEN <<>>
             ELSE URLString([parsed EXCEPT !.Path = IF parsed.Path = <<>> THEN <<"/">>
                                                    ELSE parsed.Path])

\* net.ParseIP for dotted IPv4 literals: the four octets, <<>> when the host
\* is not such a literal.
IPv4Octets(host) ==
    CASE host = "127.0.0.1" -> <<127, 0, 0, 1>>
      [] host = "127.0.0.2" -> <<127, 0, 0, 2>>
      [] host = "0.0.0.0" -> <<0, 0, 0, 0>>
      [] host = "10.0.0.5" -> <<10, 0, 0, 5>>
      [] host = "172.16.0.1" -> <<172, 16, 0, 1>>
      [] host = "192.168.1.1" -> <<192, 168, 1, 1>>
      [] host = "169.254.169.254" -> <<169, 254, 169, 254>>
      [] host = "8.8.8.8" -> <<8, 8, 8, 8>>
      [] OTHER -> <<>>

IsIPLiteral(host) == IPv4Octets(host) # <<>> \/ host = "::1"

\* net.IP.IsLoopback: 127.0.0.0/8 and ::1.
IsLoopback(host) ==
    \/ host = "::1"
    \/ IPv4Octets(host) # <<>> /\ IPv4Octets(host)[1] = 127

\* net.IP.IsPrivate: 10/8, 172.16/12, 192.168/16.
IsPrivate(host) ==
    LET o == IPv4Octets(host)
    IN  /\ o # <<>>
        /\ \/ o[1] = 10
           \/ o[1] = 172 /\ o[2] \in 16..31
           \/ o[1] = 192 /\ o[2] = 168

\* net.IP.IsLinkLocalUnicast: 169.254/16.
IsLinkLocalUnicast(host) ==
    LET o == IPv4Octets(host)
    IN  o # <<>> /\ o[1] = 169 /\ o[2] = 254

\* validateURL: the error it returns, "nil" for none.
validateURL(rawURL) ==
    LET parsed == ParseURL(rawURL)
        host   == parsed.Hostname
    IN  IF ~parsed.ok THEN "invalid URL format"
        ELSE IF parsed.Scheme # "http" /\ parsed.Scheme # "https"
        THEN "only http/https URLs allowed"
        ELSE IF host = "localhost" \/ host = "127.0.0.1" \/ host = "0.0.0.0"
        THEN "localhost not allowed"
        ELSE IF IsIPLiteral(host)
                /\ (IsLoopback(host) \/ IsPrivate(host) \/ IsLinkLocalUnicast(host))
        THEN "private/internal IPs not allowed"
        ELSE "nil"

\* What the resolver answers for a host when a connection is made: the class
\* of the address, or "nxdomain".  validateURL never asks.
Resolve(host) ==
    CASE host \in {"localhost", "LOCALHOST", "localtest.me"} -> "loopback"
      [] host = "metadata.internal" -> "private"
      [] host = "nxdomain.invalid" -> "nxdomain"
      [] host = "0.0.0.0" -> "unspecified"
      [] IsIPLiteral(host) /\ IsLoopback(host) -> "loopback"
      [] IsIPLiteral(host) /\ IsPrivate(host) -> "private"
      [] IsIPLiteral(host) /\ IsLinkLocalUnicast(host) -> "linklocal"
      [] OTHER -> "public"

(***************************************************************************)
(* The URL harness: validateURL on a URL string, directly (as              *)
(* ExtractPricing calls it) or after normalizeURL (as DiscoverPricingPage  *)
(* calls it).                                                              *)
(***************************************************************************)

HostToks == {"example.com", "localhost", "LOCALHOST", "localtest.me", "metadata.internal",
             "nxdomain.invalid", "127.0.0.1", "127.0.0.2", "0.0.0.0", "10.0.0.5",
             "172.16.0.1", "192.168.1.1", "169.254.169.254", "8.8.8.8", "[::1]",
             "bad host"}

RawURLs ==
    {<<>>} \cup
    { pre \o <<h>> \o port \o path :
        pre \in {<<>>, <<"http", "://">>, <<"https", "://">>, <<"ftp", "://">>},
        h \in HostToks, port \in {<<>>, <<":8080">>}, path \in {<<>>, <<"/pricing">>} }

UInit ==
    /\ upc = "start"
    /\ uRaw \in RawURLs
    /\ uErr = ""
    /\ DIdle
    /\ PIdle
    /\ SIdle
    /\ CIdle
    /\ TIdle

UNormalize ==
    /\ upc = "start"
    /\ uRaw' = normalizeURL(uRaw)
    /\ upc' = "normalized"
    /\ UNCHANGED <<uErr, dvars, pvars, svars, cvars, tvars>>

UValidate ==
    /\ upc \in {"start", "normalized"}
    /\ uErr' = validateURL(uRaw)
    /\ upc' = "validated"
    /\ UNCHANGED <<uRaw, dvars, pvars, svars, cvars, tvars>>

UNext == UNormalize \/ UValidate

SpecURL == UInit /\ [][UNext]_vars

\* The URL parsed as validateURL parses it.
UParsed == ParseURL(uRaw)

UBadAddress(host) == Resolve(host) \in {"loopback", "private", "linklocal", "nxdomain"}

\* C7: validateURL fails for every URL whose scheme is not http or https and
\* for every URL whose host is localhost or is, literally or after name
\* resolution, a loopback, private or link-local address or does not resolve;
\* it succeeds for https://example.com/pricing.
C7_ValidateRejectsInternal ==
    upc = "validated" =>
        /\ (UParsed.ok /\ UParsed.Scheme \notin {"http", "https"}) => uErr # "nil"
        /\ (UParsed.ok /\ UParsed.Hostname = "localhost") => uErr # "nil"
        /\ (UParsed.ok /\ UParsed.Hostname # "" /\ UBadAddress(UParsed.Hostname)) => uErr # "nil"
        /\ uRaw = <<"https", "://", "example.com", "/pricing">> => uErr = "nil"

(***************************************************************************)
(* Text helpers of the page heuristics                                     *)
(***************************************************************************)

\* strings.Contains
Contains(s, sub) ==
    \E i \in 0..(Len(s) - Len(sub)) : SubSeq(s, i + 1, i + Len(sub)) = sub

\* strings.Fields: the maximal runs of non-space characters.
RECURSIVE TakeWord(_)
TakeWord(s) ==
    IF s # <<>> /\ ~IsSpace(Head(s)) THEN <<Head(s)>> \o TakeWord(Tail(s)) ELSE <<>>

RECURSIVE Fields(_)
Fields(s) ==
    LET t == TrimLeft(s)
    IN  IF t = <<>> THEN <<>>
        ELSE LET w == TakeWord(t)
             IN  <<w>> \o Fields(SubSeq(t, Len(w) + 1, Len(t)))

\* A run of n bytes of page text without white space or keywords.
Filler(n) == [i \in 1..n |-> "x"]

\* toggleIndicators (package variable)
toggleIndicators ==
    { <<"p", "a", "y", " ", "m", "o", "n", "t", "h", "l", "y">>,
      <<"p", "a", "y", " ", "a", "n", "n", "u", "a", "l", "l", "y">>,
      <<"m", "o", "n", "t", "h", "l", "y">>,
      <<"y", "e", "a", "r", "l", "y">>,
      <<"a", "n", "n", "u", "a", "l">>,
      <<"b", "i", "l", "l", "e", "d", " ", "m", "o", "n", "t", "h", "l", "y">>,
      <<"b", "i", "l", "l", "e", "d", " ", "a", "n", "n", "u", "a", "l", "l", "y">>,
      <<"b", "i", "l", "l", "e", "d", " ", "y", "e", "a", "r", "l", "y">>,
      <<"s", "a", "v", "e">>,
      <<"p", "e", "r", " ", "m", "o", "n", "t", "h">>,
      <<"p", "e", "r", " ", "y", "e", "a", "r">>,
      <<"/", "m", "o">>,
      <<"/", "y", "r">>,
      <<"s", "w", "i", "t", "c", "h", " ", "t", "o", " ", "a", "n", "n", "u", "a", "l">>,
      <<"s", "w", "i", "t", "c", "h", " ", "t", "o", " ", "m", "o", "n", "t", "h", "l", "y">> }

\* monthlyKeywords (package variable)
monthlyKeywords ==
    << <<"m", "o", "n", "t", "h", "l", "y">>,
      <<"m", "o", "n", "t", "h">>,
      <<"/", "m", "o">>,
      <<"p", "e", "r", " ", "m", "o", "n", "t", "h">>,
      <<"m", "o">>,
      <<"p", "a", "y", " ", "m", "o", "n", "t", "h", "l", "y">>,
      <<"b", "i", "l", "l", "e", "d", " ", "m", "o", "n", "t", "h", "l", "y">> >>

\* yearlyKeywords (package variable)
yearlyKeywords ==
    << <<"y", "e", "a", "r", "l", "y">>,
      <<"a", "n", "n", "u", "a", "l">>,
      <<"a", "n", "n", "u", "a", "l", "l", "y">>,
      <<"y", "e", "a", "r">>,
      <<"/", "y", "r">>,
      <<"p", "e", "r", " ", "y", "e", "a", "r">>,
      <<"p", "a", "y", " ", "a", "n", "n", "u", "a", "l", "l", "y">>,
      <<"b", "i", "l", "l", "e", "d", " ", "a", "n", "n", "u", "a", "l", "l", "y">>,
      <<"s", "a", "v", "e">>,
      <<"p", "a", "y", " ", "y", "e", "a", "r", "l", "y">> >>

\* detectBillingToggle
detectBillingToggle(visibleText, rawHTML) ==
    LET contentLower == ToLower(visibleText \o <<" ">> \o rawHTML)
        toggleCount  == Cardinality({ind \in toggleIndicators : Contains(contentLower, ind)})
        hasTabList   ==
            \/ Contains(rawHTML, <<"r", "o", "l", "e", "=", "\"", "t", "a", "b", "l", "i", "s", "t", "\"">>)
            \/ Contains(rawHTML, <<"r", "o", "l", "e", "=", "\"", "t", "a", "b", "\"">>)
            \/ Contains(rawHTML, <<"t", "o", "g", "g", "l", "e">>)
            \/ Contains(rawHTML, <<"s", "w", "i", "t", "c", "h">>)
    IN  toggleCount >= 2 \/ (toggleCount >= 1 /\ hasTabList)

\* textSimilarity as the comparison the caller makes: similarity < 0.95.
\* matches counts the words of text2 (with repetition) found among text1's.
SimilarityMatches(text1, text2) ==
    LET words1 == Fields(ToLower(text1))
        words2 == Fields(ToLower(text2))
        set1   == {words1[i] : i \in 1..Len(words1)}
    IN  Cardinality({j \in 1..Len(words2) : words2[j] \in set1})

\* The ratio matches / (len1 + len2 - matches) as numerator and denominator;
\* equal texts give 1/1, a text without words gives 0/1.
textSimilarity(text1, text2) ==
    LET n1 == Len(Fields(ToLower(text1)))
        n2 == Len(Fields(ToLower(text2)))
        m  == SimilarityMatches(text1, text2)
    IN  IF text1 = text2 THEN <<1, 1>>
        ELSE IF n1 = 0 \/ n2 = 0 THEN <<0, 1>>
        ELSE <<m, n1 + n2 - m>>

\* similarity < 0.95
SimilarityBelow95(sim) == sim[1] * 100 < 95 * sim[2]

\* verifyStateChange: monthlyIndicators
monthlyIndicators ==
    { <<"b", "i", "l", "l", "e", "d", " ", "m", "o", "n", "t", "h", "l", "y">>,
      <<"/", "m", "o">>,
      <<"p", "e", "r", " ", "m", "o", "n", "t", "h">>,
      <<"m", "o", "n", "t", "h", "l", "y", " ", "b", "i", "l", "l", "i", "n", "g">> }

\* verifyStateChange: yearlyIndicators
yearlyIndicators ==
    { <<"b", "i", "l", "l", "e", "d", " ", "a", "n", "n", "u", "a", "l", "l", "y">>,
      <<"b", "i", "l", "l", "e", "d", " ", "y", "e", "a", "r", "l", "y">>,
      <<"/", "y", "r">>,
      <<"p", "e", "r", " ", "y", "e", "a", "r">>,
      <<"s", "a", "v", "e">>,
      <<"a", "n", "n", "u", "a", "l", "l", "y">> }

\* verifyStateChange.  ariaChanged and urlHasType are what the two in-page
\* probes (the aria-selected script, the location) answer; a probe that
\* fails leaves its variable false.
verifyStateChange(newText, previousText, billingType, ariaChanged, urlHasType) ==
    \/ /\ newText # previousText
       /\ Len(newText) > 100
       /\ SimilarityBelow95(textSimilarity(previousText, newText))
    \/ /\ billingType = "monthly"
       /\ \E ind \in monthlyIndicators : Contains(ToLower(newText), ind)
    \/ /\ billingType = "yearly"
       /\ \E ind \in yearlyIndicators : Contains(ToLower(newText), ind)
    \/ ariaChanged
    \/ urlHasType

\* scoreTabText
RECURSIVE ScoreKeywords(_, _, _)
ScoreKeywords(normalized, keywords, i) ==
    IF i > Len(keywords) THEN 0
    ELSE (IF Contains(normalized, keywords[i])
          THEN 10 + (IF normalized = keywords[i] THEN 20 ELSE 0)
          ELSE 0) + ScoreKeywords(normalized, keywords, i + 1)

scoreTabText(text, keywords) ==
    ScoreKeywords(CollapseSpaces(TrimSpace(ToLower(text))), keywords, 1)

\* The scores of a candidate with the two bonuses and both sides kept.
TabScoresBothKept(tab) ==
    LET bonus == (IF tab.Type = "role-tab" THEN 5 ELSE 0)
                 + (IF tab.AriaSelected # "" THEN 3 ELSE 0)
    IN  [monthly |-> scoreTabText(tab.Text, monthlyKeywords) + bonus,
         yearly |-> scoreTabText(tab.Text, yearlyKeywords) + bonus]

\* findBillingTabs, one candidate: its monthly and yearly scores after the
\* bonuses and the keep-only-the-higher rule.
TabScores(tab) ==
    LET bonus == (IF tab.Type = "role-tab" THEN 5 ELSE 0)
                 + (IF tab.AriaSelected # "" THEN 3 ELSE 0)
        m == scoreTabText(tab.Text, monthlyKeywords) + bonus
        y == scoreTabText(tab.Text, yearlyKeywords) + bonus
    IN  IF m > 0 /\ y > 0
        THEN IF m > y THEN [monthly |-> m, yearly |-> 0] ELSE [monthly |-> 0, yearly |-> y]
        ELSE [monthly |-> m, yearly |-> y]

\* findBillingTabs, the loop over tabs[i..] with the best seen so far.
RECURSIVE BestTabs(_, _, _)
BestTabs(tabs, i, best) ==
    IF i > Len(tabs) THEN best
    ELSE LET sc == TabScores(tabs[i])
             b1 == IF sc.monthly > best.monthlyScore
                   THEN [best EXCEPT !.monthlySelector = tabs[i].Selector,
                                     !.monthlyScore = sc.monthly]
                   ELSE best
             b2 == IF sc.yearly > b1.yearlyScore
                   THEN [b1 EXCEPT !.yearlySelector = tabs[i].Selector,
                                   !.yearlyScore = sc.yearly]
                   ELSE b1
         IN  BestTabs(tabs, i + 1, b2)

\* findBillingTabs on the candidates the page script returned.
findBillingTabs(tabs) ==
    BestTabs(tabs, 1, [monthlySelector |-> "", monthlyScore |-> 0,
                       yearlySelector |-> "", yearlyScore |-> 0])

(***************************************************************************)
(* Extracted plans, canonical keys, merging and deduplication              *)
(***************************************************************************)

\* canonicalPlanKey, the name part: lower-case, trim, collapse white space,
\* strip a trailing " plan", then a trailing " tier".
NormalizeName(name) ==
    LET n1 == CollapseSpaces(TrimSpace(ToLower(name)))
        n2 == TrimSuffix(n1, <<" ", "p", "l", "a", "n">>)
    IN  TrimSuffix(n2, <<" ", "t", "i", "e", "r">>)

\* canonicalPlanKey, the billing part.
NormalizeBilling(bp) ==
    IF ToLower(bp) = <<>> THEN <<"u", "n", "k", "n", "o", "w", "n">> ELSE ToLower(bp)

\* canonicalPlanKey, the price part: the amount when positive, else the first
\* number of the price string, else empty.
PriceKey(plan) ==
    IF plan.PriceAmount > 0 THEN FormatAmount2(plan.PriceAmount)
    ELSE IF plan.PriceString # <<>> THEN RemoveCommas(FindNumber(plan.PriceString))
    ELSE <<>>

\* A key that also separates records by monthly_equivalent_amount.
canonicalPlanKeyWithEquivalent(plan) ==
    NormalizeName(plan.Name) \o <<"|">> \o NormalizeBilling(plan.BillingPeriod)
        \o <<"|">> \o PriceKey(plan) \o <<"|">> \o Itoa(plan.MonthlyEquivalentAmount)

\* fmt.Sprintf("%s|%s|%s", name, billing, priceKey)
canonicalPlanKey(plan) ==
    NormalizeName(plan.Name) \o <<"|">> \o NormalizeBilling(plan.BillingPeriod)
        \o <<"|">> \o PriceKey(plan)

\* A merge that keeps the record seen first as it is.
mergePlansKeepExisting(existing, new) == existing

\* mergePlans
mergePlans(existing, new) ==
    LET r1 == IF Len(new.Features) > Len(existing.Features)
              THEN [existing EXCEPT !.Features = new.Features] ELSE existing
        r2 == IF Len(new.IncludedUnits) > Len(r1.IncludedUnits)
              THEN [r1 EXCEPT !.IncludedUnits = new.IncludedUnits] ELSE r1
        r3 == IF Len(new.Evidence.PriceSnippet) > Len(r2.Evidence.PriceSnippet)
              THEN [r2 EXCEPT !.Evidence = new.Evidence] ELSE r2
        r4 == IF r3.MonthlyEquivalentAmount = 0 /\ new.MonthlyEquivalentAmount > 0
              THEN [r3 EXCEPT !.MonthlyEquivalentAmount = new.MonthlyEquivalentAmount]
              ELSE r3
    IN  IF r4.AnnualBilledAmount = 0 /\ new.AnnualBilledAmount > 0
        THEN [r4 EXCEPT !.AnnualBilledAmount = new.AnnualBilledAmount]
        ELSE r4

\* The map `deduped` after the loop over plans[i..]: canonical key -> record.
RECURSIVE DedupedMap(_, _, _)
DedupedMap(planList, i, m) ==
    IF i > Len(planList) THEN m
    ELSE LET key == canonicalPlanKey(planList[i])
         IN  IF key \in DOMAIN m
             THEN DedupedMap(planList, i + 1, [m EXCEPT ![key] = mergePlans(m[key], planList[i])])
             ELSE DedupedMap(planList, i + 1, m @@ (key :> planList[i]))

\* The comparison handed to sort.Slice: by Name, then by BillingPeriod.
PlanLess(a, b) ==
    IF a.Name # b.Name THEN StrLess(a.Name, b.Name)
    ELSE StrLess(a.BillingPeriod, b.BillingPeriod)

\* The results sort.Slice can leave: the map is iterated in an unspecified
\* order and the sort is not stable, so records that compare equal may come
\* out in any order.
SortedOrders(recs) ==
    LET n == Cardinality(recs)
    IN  {s \in [1..n -> recs] :
            /\ \A i, j \in 1..n : i # j => s[i] # s[j]
            /\ \A i, j \in 1..n : i < j => ~PlanLess(s[j], s[i])}

\* deduplicatePlans: the set of lists one call may return.
deduplicatePlans(planList) ==
    IF Len(planList) <= 1 THEN {planList}
    ELSE LET m == DedupedMap(planList, 1, [k \in {} |-> 0])
         IN  SortedOrders({m[k] : k \in DOMAIN m})

\* detectBillingPeriods: the distinct periods other than "" and "unknown",
\* in the unspecified order of a map iteration.
PeriodSet(planList) ==
    {planList[i].BillingPeriod : i \in 1..Len(planList)}
        \ {<<>>, <<"u", "n", "k", "n", "o", "w", "n">>}

\* The periods listed once per plan, in the order of the plans.
detectBillingPeriodsPerPlan(planList) ==
    { SelectSeq([i \in 1..Len(planList) |-> planList[i].BillingPeriod],
                LAMBDA b : b \notin {<<>>, <<"u", "n", "k", "n", "o", "w", "n">>}) }

detectBillingPeriods(planList) ==
    LET ps == PeriodSet(planList)
        n  == Cardinality(ps)
    IN  {s \in [1..n -> ps] : \A i, j \in 1..n : i # j => s[i] # s[j]}

(***************************************************************************)
(* Inputs of the deduplication harness                                     *)
(***************************************************************************)

sMonthly == <<"m", "o", "n", "t", "h", "l", "y">>
sYearly  == <<"y", "e", "a", "r", "l", "y">>
sUnknown == <<"u", "n", "k", "n", "o", "w", "n">>

Plan(name, amount, pstr, bp, meq, annual, feats, snippet) ==
    [Name |-> name, PriceAmount |-> amount, PriceString |-> pstr,
     BillingPeriod |-> bp, MonthlyEquivalentAmount |-> meq,
     AnnualBilledAmount |-> annual,
     IncludedUnits |-> <<>>, Features |-> feats,
     Evidence |-> [PriceSnippet |-> snippet]]

(***************************************************************************)
(* What the outside world may answer: pages, rendered texts, tab           *)
(* candidates, replies of the extraction capability                        *)
(***************************************************************************)

\* Visible text of a page below the 100-byte minimum.
VisShort ==
    <<"P", "r", "i", "c", "i", "n", "g">>

\* Visible text without any toggle indicator.
VisPlain ==
    <<"P", "r", "o", " ", "$", "1", "0", " ", "T", "e", "a", "m", " ", "$", "2", "0", " ">>
        \o Filler(100)

\* Visible text with several toggle indicators.
VisToggle ==
    <<"P", "r", "o", " ", "$", "1", "0", " ", "/", "m", "o", " ", "b", "i", "l", "l", "e",
        "d", " ", "m", "o", "n", "t", "h", "l", "y", " ">>
        \o Filler(100)

\* Visible text with the one indicator "save".
VisSave ==
    <<"P", "r", "o", " ", "$", "1", "0", " ", "S", "a", "v", "e", " ", "2", "0", "%", " ">>
        \o Filler(100)

\* fetchPageContent's results: [visible |-> visibleText, html |-> rawHTML].
PageOf(id) ==
    CASE id = "short"    -> [visible |-> VisShort, html |-> VisShort]
      [] id = "plain"    -> [visible |-> VisPlain, html |-> VisPlain]
      [] id = "toggle"   -> [visible |-> VisToggle, html |-> VisToggle]
      [] id = "save"     -> [visible |-> VisSave, html |-> VisSave]
      [] id = "save_tab" -> [visible |-> VisSave,
                            html |-> <<"r", "o", "l", "e", "=", "\"", "t", "a", "b", "\"", " ">> \o VisSave]

Pages == {"short", "plain", "toggle", "save", "save_tab"}

\* Rendered body text of the default state.
TxtDefault ==
    <<"P", "r", "o", " ", "T", "e", "a", "m", " ">>
        \o Filler(100)

\* The default text with a trailing blank: the same words.
TxtDefaultSpaced ==
    <<"P", "r", "o", " ", "T", "e", "a", "m", " ">>
        \o Filler(100)
        \o <<" ">>

\* Rendered text of the monthly view.
TxtMonthly ==
    <<"P", "r", "o", " ", "$", "1", "0", " ", "/", "m", "o", " ", "b", "i", "l", "l", "e",
        "d", " ", "m", "o", "n", "t", "h", "l", "y", " ">>
        \o Filler(100)

\* Rendered text of the yearly view.
TxtYearly ==
    <<"P", "r", "o", " ", "$", "1", "0", "0", " ", "/", "y", "r", " ", "b", "i", "l", "l",
        "e", "d", " ", "a", "n", "n", "u", "a", "l", "l", "y", " ", "s", "a", "v", "e",
        " ", "2", "0", "%", " ">>
        \o Filler(100)

\* A changed text of at most 100 bytes without billing phrases.
TxtShortChanged ==
    <<"E", "n", "t", "e", "r", "p", "r", "i", "s", "e", " ", "c", "o", "n", "t", "a", "c",
        "t", " ", "u", "s">>

\* The body text chromedp.Text returns, by name.
TextOf(id) ==
    CASE id = "default" -> TxtDefault
      [] id = "default_spaced" -> TxtDefaultSpaced
      [] id = "monthly" -> TxtMonthly
      [] id = "yearly" -> TxtYearly
      [] id = "short_changed" -> TxtShortChanged
      [] id = "" -> <<>>

Texts == {"default", "default_spaced", "monthly", "yearly", "short_changed", ""}

\* One element of the JSON list the tab-finding page script returns.
Tab(selector, text, ariaSelected, type) ==
    [Selector |-> selector, Text |-> text, AriaSelected |-> ariaSelected, Type |-> type]

\* Candidate lists the page script may return.
TabLists ==
    { <<>>,
      <<Tab("tab1", <<"M", "o", "n", "t", "h", "l", "y">>, "true", "role-tab"),
        Tab("tab2", <<"Y", "e", "a", "r", "l", "y">>, "false", "role-tab")>>,
      <<Tab("button1", <<"M", "o", "n", "t", "h", "l", "y", " ", "/", " ", "Y", "e", "a", "r", "l", "y">>, "", "button")>>,
      <<Tab("tab1", <<"F", "e", "a", "t", "u", "r", "e", "s">>, "true", "role-tab"),
        Tab("tab2", <<"R", "e", "v", "i", "e", "w", "s">>, "false", "role-tab")>>,
      <<Tab("button1", <<"S", "a", "v", "e", " ", "2", "0", "%", " ", "y", "e", "a", "r", "l", "y">>, "", "button"),
        Tab("label1", <<"M", "o", "n", "t", "h">>, "", "label")>>,
      <<Tab("label1", <<"P", "a", "y", " ", "m", "o", "n", "t", "h", "l", "y">>, "", "label")>> }

pProM10   == Plan(<<"P", "r", "o">>, 10000, <<>>, sMonthly, 0, 0, <<"f1">>, <<"$", "1", "0">>)
pProM10b  == Plan(<<"p", "r", "o", " ", " ", "P", "l", "a", "n">>, 10004, <<>>, sMonthly, 0, 0,
                  <<"f2", "f3">>, <<"$", "1", "0", "/", "m", "o">>)
pProM10u  == [Plan(<<"P", "r", "o", " ">>, 10000, <<>>, sMonthly, 0, 0, <<>>, <<>>)
                 EXCEPT !.IncludedUnits = <<"u1", "u2">>]
pProM20   == Plan(<<"P", "r", "o">>, 20000, <<>>, sMonthly, 0, 0, <<>>, <<>>)
pProY100a == Plan(<<"P", "r", "o">>, 100000, <<>>, sYearly, 9000, 0, <<"f1">>, <<>>)
pProY100b == Plan(<<"P", "r", "o">>, 100000, <<>>, sYearly, 0, 0, <<"f1">>, <<>>)
pProY100c == Plan(<<"P", "r", "o">>, 100000, <<>>, sYearly, 8330, 100000, <<"f1">>, <<>>)
pProTierU == Plan(<<"P", "r", "o", " ", "T", "i", "e", "r">>, 0,
                  <<"$", "1", "0", ".", "0", "0", "/", "m", "o">>, <<>>, 0, 0, <<>>, <<>>)
pProU1000 == Plan(<<"P", "r", "o">>, 0, <<"1", ",", "0", "0", "0">>, sUnknown, 83000, 0,
                  <<"f4">>, <<>>)
pTeamM    == Plan(<<"T", "e", "a", "m">>, 10000, <<>>, <<"M", "o", "n", "t", "h", "l", "y">>, 0, 0,
                  <<>>, <<>>)

\* The JSON documents the capability may answer with, decoded as
\* json.Unmarshal decodes them into {Plans, Warnings}.
DecodeJSON(doc) ==
    CASE doc = "json_none"  -> [Plans |-> <<>>, Warnings |-> <<"pricing_gated">>]
      [] doc = "json_m1"    -> [Plans |-> <<pProM10, pProM10b>>, Warnings |-> <<>>]
      [] doc = "json_m2"    -> [Plans |-> <<pProM10, pProM20>>,
                                Warnings |-> <<"features_not_visible">>]
      [] doc = "json_y1"    -> [Plans |-> <<pProY100a>>, Warnings |-> <<>>]
      [] doc = "json_my"    -> [Plans |-> <<pProM10, pProY100a>>, Warnings |-> <<>>]
      [] doc = "json_u3"    -> [Plans |-> <<pProTierU, pProU1000, pProM20>>,
                                Warnings |-> <<"billing_period_unknown">>]

JSONDocs == {"json_none", "json_m1", "json_m2", "json_y1", "json_my", "json_u3"}

\* Message contents, as tokens: a JSON document bare, in a Markdown code fence
\* ("<fence>" stands for three backticks) with or without the json tag,
\* preceded by prose, or cut short.
Contents ==
    { <<d>> : d \in JSONDocs }
    \cup UNION { { <<"<fence>json", " ", d, " ", "<fence>">>, <<" ", "<fence>", d, "<fence>", " ">> } :
                 d \in {"json_my", "json_y1"} }
    \cup { <<"Here is the data:", " ", "json_m1">>, <<"<fence>json", " ", "json_cut_short">> }

\* What one call of the chat-completions API may come to.
LLMReplies ==
    { [kind |-> k, content |-> <<>>] : k \in {"transport_error", "api_error", "no_choices"} }
    \cup { [kind |-> "content", content |-> c] : c \in Contents }

TrimPrefix(s, pre) ==
    IF HasPrefix(s, pre) THEN SubSeq(s, Len(pre) + 1, Len(s)) ELSE s

\* extractWithLLM, lines 1125-1129: the reply without its code fence.
StripFences(content) ==
    TrimSpace(TrimSuffix(TrimPrefix(TrimPrefix(TrimSpace(content), <<"<fence>json">>), <<"<fence>">>),
                         <<"<fence>">>))

\* extractWithLLM: (plans, warnings, err) for one reply of the capability.
extractWithLLM(keyConfigured, reply) ==
    IF ~keyConfigured
    THEN [plans |-> <<>>, warnings |-> <<>>, err |-> "OpenAI API key not configured"]
    ELSE IF reply.kind # "content"
    THEN [plans |-> <<>>, warnings |-> <<>>, err |-> reply.kind]
    ELSE LET response == StripFences(reply.content)
         IN  IF Len(response) = 1 /\ response[1] \in JSONDocs
             THEN [plans |-> DecodeJSON(response[1]).Plans,
                   warnings |-> DecodeJSON(response[1]).Warnings, err |-> "nil"]
             ELSE [plans |-> <<>>, warnings |-> <<"parse_error">>,
                   err |-> "failed to parse extraction result"]

\* The records of the deduplication harness (amounts in thousandths).
PlanUniverse ==
    {pProM10, pProM10b, pProM10u, pProM20, pProY100a, pProY100b, pProY100c, pProTierU,
     pProU1000, pTeamM}

\* The longest input list of the harness.
MaxPlans == 3

PlanLists == UNION {[1..n -> PlanUniverse] : n \in 0..MaxPlans}

(***************************************************************************)
(* The deduplication harness: deduplicatePlans applied once, then again    *)
(* to its own result.                                                      *)
(***************************************************************************)

DInit ==
    /\ dpc = "start"
    /\ dIn \in PlanLists
    /\ dOut1 = <<>>
    /\ dOut2 = <<>>
    /\ UIdle
    /\ PIdle
    /\ SIdle
    /\ CIdle
    /\ TIdle

DedupOnce ==
    /\ dpc = "start"
    /\ dOut1' \in deduplicatePlans(dIn)
    /\ dpc' = "once"
    /\ UNCHANGED <<dIn, dOut2, uvars, pvars, svars, cvars, tvars>>

DedupTwice ==
    /\ dpc = "once"
    /\ dOut2' \in deduplicatePlans(dOut1)
    /\ dpc' = "twice"
    /\ UNCHANGED <<dIn, dOut1, uvars, pvars, svars, cvars, tvars>>

\* A second execution of deduplicatePlans on the same input.
DedupAgain ==
    /\ dpc = "once"
    /\ dOut2' \in deduplicatePlans(dIn)
    /\ dpc' = "again"
    /\ UNCHANGED <<dIn, dOut1, uvars, pvars, svars, cvars, tvars>>

DNext == DedupOnce \/ DedupTwice \/ DedupAgain

SpecDedup == DInit /\ [][DNext]_vars

KeysOf(planList) == {canonicalPlanKey(planList[i]) : i \in 1..Len(planList)}

(***************************************************************************)
(* Properties of deduplicatePlans                                          *)
(***************************************************************************)

\* C9: deduplicatePlans is idempotent: applied to its own result it returns
\* the same records in the same order.
C9_DedupIdempotent == dpc = "twice" => dOut2 = dOut1

\* Two records that agree on normalised name, billing period and price.
SamePlanIdentity(a, b) ==
    /\ NormalizeName(a.Name) = NormalizeName(b.Name)
    /\ NormalizeBilling(a.BillingPeriod) = NormalizeBilling(b.BillingPeriod)
    /\ PriceKey(a) = PriceKey(b)

\* C10: the result of deduplicatePlans has no two records with the same
\* canonical key, its set of keys is the input's, and input records that agree
\* on normalised name, billing period and price (whatever their
\* monthly_equivalent_amount) are represented by exactly one result record.
C10_DedupUniqueKeys ==
    dpc # "start" =>
        /\ \A i, j \in 1..Len(dOut1) :
               i # j => canonicalPlanKey(dOut1[i]) # canonicalPlanKey(dOut1[j])
        /\ KeysOf(dOut1) = KeysOf(dIn)
        /\ \A i, j \in 1..Len(dIn) :
               (/\ i < j
                /\ NormalizeName(dIn[i].Name) = NormalizeName(dIn[j].Name)
                /\ dIn[i].BillingPeriod = dIn[j].BillingPeriod
                /\ dIn[i].PriceAmount = dIn[j].PriceAmount
                /\ dIn[i].PriceString = dIn[j].PriceString)
               => Cardinality({k \in 1..Len(dOut1) : SamePlanIdentity(dOut1[k], dIn[i])}) = 1

\* C10 witness: two records differing only in monthly_equivalent_amount went
\* in and one record came out.
C10_Witness ==
    /\ dpc = "once"
    /\ Len(dIn) = 2
    /\ dIn[1] # dIn[2]
    /\ [dIn[1] EXCEPT !.MonthlyEquivalentAmount = 0] = [dIn[2] EXCEPT !.MonthlyEquivalentAmount = 0]
    /\ Len(dOut1) = 1

(***************************************************************************)
(* One request to the service: ExtractPricing (validation, static pass,    *)
(* browser pass, choice of the result) or DiscoverPricingPage              *)
(***************************************************************************)

\* The URL strings of the requests.
ReqURLs ==
    { <<"https", "://", "example.com", "/pricing">>,
      <<"example.com", "/pricing">>,
      <<"example.com">>,
      <<"http", "://", "127.0.0.1", "/pricing">>,
      <<"http", "://", "localhost", ":8080">>,
      <<"http", "://", "nxdomain.invalid", "/pricing">>,
      <<"ftp", "://", "example.com", "/pricing">>,
      <<"bad host">>,
      <<>> }

Requests ==
    { [kind |-> "extract", url |-> u, keyConfigured |-> k] : u \in ReqURLs, k \in BOOLEAN }
    \cup { [kind |-> "discover", url |-> u, keyConfigured |-> TRUE] : u \in ReqURLs }

PInit ==
    /\ req \in Requests
    /\ pc = (IF req.kind = "extract" THEN "ep_validate" ELSE "dp_validate")
    /\ PZero
    /\ DIdle
    /\ UIdle
    /\ SIdle
    /\ CIdle
    /\ TIdle

\* An invalid URL answered with an error value beside an empty response.
InvalidURLReturnedAsError(err) ==
    [NoResponse EXCEPT !.goErr = err]

\* ExtractPricing, lines 259-261: the response to an invalid URL.
InvalidURLResponse(err) ==
    [NoResponse EXCEPT !.Error = <<"invalid URL: ", err>>]

\* ExtractPricing, lines 266-269: the response to a failed fetch.
FetchFailedResponse(err) ==
    [NoResponse EXCEPT !.Error = <<"failed to fetch page: ", err>>]

\* ExtractPricing, lines 272-277: the response to a page below 100 bytes.
ContentTooShortResponse ==
    [NoResponse EXCEPT !.Error = <<"page content too short or empty">>,
                       !.Warnings = <<"page_content_minimal">>]

\* ExtractPricing, lines 299-304: the response to a failed static extraction.
ExtractionFailedResponse(err, w) ==
    [NoResponse EXCEPT !.Error = <<"extraction failed: ", err>>, !.Warnings = w]

\* ExtractPricing, lines 336-343 and 348-355: a response with plans.
PlansResponse(pl, url, per, need, used, w) ==
    [NoResponse EXCEPT !.Plans = pl, !.SourceURL = url, !.DetectedPeriods = per,
                       !.NeedsRender = need, !.RenderUsed = used, !.Warnings = w]

\* A service without a browser: the pass is never tried.
BrowserRenderUnavailable == FALSE

\* shouldUseBrowserRender
shouldUseBrowserRender == TRUE

\* The comparison of line 332 with ties going to the browser results.
UseBrowserResultsOnTie(browserPlans, browserPeriods, staticPl, staticPer) ==
    Len(browserPlans) >= Len(staticPl) \/ Len(browserPeriods) >= Len(staticPer)

\* ExtractPricing, line 332: are the browser results better?
UseBrowserResults(browserPlans, browserPeriods, staticPl, staticPer) ==
    Len(browserPlans) > Len(staticPl) \/ Len(browserPeriods) > Len(staticPer)

\* clickTabWithVerification: maxRetries
maxRetries == 2

\* What an HTTP GET of the URL may come to: an error, or a page.
FetchOutcomes(url) ==
    IF Resolve(ParseURL(url).Hostname) = "nxdomain"
    THEN {"network_error"}
    ELSE {"network_error", "HTTP 404"} \cup Pages

\* ExtractPricing with the page requested before the URL is looked at.
EP_ValidateAfterFetch ==
    /\ pc = "ep_validate"
    /\ netOps' = Append(netOps, "GET")
    /\ validated' = Append(validated, req.url)
    /\ LET err == validateURL(req.url)
       IN  IF err # "nil"
           THEN /\ resp' = InvalidURLResponse(err)
                /\ failedAt' = "validation"
                /\ pc' = "done"
           ELSE /\ pc' = "ep_fetch"
                /\ UNCHANGED <<resp, failedAt>>
    /\ UNCHANGED <<req, dpvars, evars, bvars, staticPlans, staticPeriods,
                   staticWarnings, recorded, llmCalls, resultFrom, clicks, sections,
                   browserPasses, dvars, uvars, svars, cvars, tvars>>

\* ExtractPricing, lines 258-262.
EP_Validate ==
    /\ pc = "ep_validate"
    /\ validated' = Append(validated, req.url)
    /\ LET err == validateURL(req.url)
       IN  IF err # "nil"
           THEN /\ resp' = InvalidURLResponse(err)
                /\ failedAt' = "validation"
                /\ pc' = "done"
           ELSE /\ pc' = "ep_fetch"
                /\ UNCHANGED <<resp, failedAt>>
    /\ UNCHANGED <<req, dpvars, evars, bvars, netOps, staticPlans, staticPeriods,
                   staticWarnings, recorded, llmCalls, resultFrom, clicks, sections,
                   browserPasses, dvars, uvars, svars, cvars, tvars>>

\* ExtractPricing, lines 264-295: the page is fetched, measured and searched
\* for a billing toggle.
EP_Fetch ==
    /\ pc = "ep_fetch"
    /\ netOps' = Append(netOps, "GET")
    /\ \E out \in FetchOutcomes(req.url) :
          IF out \notin Pages
          THEN /\ resp' = FetchFailedResponse(out)
               /\ failedAt' = "fetch"
               /\ pc' = "done"
               /\ UNCHANGED <<hasToggle, recorded>>
          ELSE IF Len(PageOf(out).visible) < 100
          THEN /\ resp' = ContentTooShortResponse
               /\ failedAt' = "content"
               /\ recorded' = recorded \o <<"page_content_minimal">>
               /\ pc' = "done"
               /\ UNCHANGED hasToggle
          ELSE /\ hasToggle' = detectBillingToggle(PageOf(out).visible, PageOf(out).html)
               /\ pc' = "ep_extract"
               /\ UNCHANGED <<resp, failedAt, recorded>>
    /\ UNCHANGED <<req, dpvars, plans, periods, warnings, needsRender, bvars, validated,
                   staticPlans, staticPeriods, staticWarnings, llmCalls, resultFrom,
                   clicks, sections, browserPasses, dvars, uvars, svars, cvars, tvars>>

\* ExtractPricing, lines 297-317 and, when no browser pass follows, 348-355.
EP_Extract ==
    /\ pc = "ep_extract"
    /\ llmCalls' = llmCalls + 1
    /\ netOps' = (IF req.keyConfigured THEN Append(netOps, "LLM") ELSE netOps)
    /\ \E reply \in LLMReplies :
          LET r == extractWithLLM(req.keyConfigured, reply)
          IN  IF r.err # "nil"
              THEN /\ resp' = ExtractionFailedResponse(r.err, r.warnings)
                   /\ failedAt' = "extraction"
                   /\ recorded' = recorded \o r.warnings
                   /\ pc' = "done"
                   /\ UNCHANGED <<plans, periods, warnings, needsRender, staticPlans,
                                  staticPeriods, staticWarnings, resultFrom>>
              ELSE \E dp \in deduplicatePlans(r.plans) :
                   \E per \in detectBillingPeriods(dp) :
                      LET need == hasToggle /\ Len(per) <= 1
                          w    == r.warnings \o (IF need THEN <<"toggle_detected_single_period">>
                                                 ELSE <<>>)
                      IN  /\ plans' = dp
                          /\ periods' = per
                          /\ warnings' = w
                          /\ needsRender' = need
                          /\ staticPlans' = dp
                          /\ staticPeriods' = per
                          /\ staticWarnings' = w
                          /\ recorded' = recorded \o w
                          /\ IF need /\ shouldUseBrowserRender
                             THEN /\ pc' = "br_open"
                                  /\ UNCHANGED <<resp, resultFrom>>
                             ELSE /\ resp' = PlansResponse(dp, req.url, per, need, FALSE, w)
                                  /\ resultFrom' = "static"
                                  /\ pc' = "done"
                          /\ UNCHANGED failedAt
    /\ UNCHANGED <<req, dpvars, hasToggle, bvars, validated, clicks, sections,
                   browserPasses, dvars, uvars, svars, cvars, tvars>>

\* extractWithBrowserRender, lines 394-420: the browser context is created
\* with its 60-second timeout.
BR_Open ==
    /\ pc = "br_open"
    /\ session' = "open"
    /\ browserPasses' = browserPasses + 1
    /\ bWarnings' = <<>>
    /\ pc' = "br_load"
    /\ UNCHANGED <<req, resp, dpvars, evars, ctxExpired, defaultText, monthlyTab, yearlyTab,
                   attempt, monthlyClicked, yearlyClicked, monthlyText, yearlyText,
                   bPlans, bPeriods, bErr, validated, netOps, staticPlans, staticPeriods,
                   staticWarnings, recorded, llmCalls, resultFrom, clicks, sections,
                   failedAt, dvars, uvars, svars, cvars, tvars>>

\* The 60 seconds of the browser context run out: every later chromedp call
\* on it fails.
ContextTimeout ==
    /\ pc \in {"br_load", "br_tabs", "br_monthly", "br_yearly"}
    /\ ~ctxExpired
    /\ ctxExpired' = TRUE
    /\ UNCHANGED <<rvars, dpvars, evars, session, defaultText, monthlyTab, yearlyTab,
                   attempt, monthlyClicked, yearlyClicked, monthlyText, yearlyText,
                   bWarnings, bPlans, bPeriods, bErr, hvars, dvars, uvars, svars, cvars, tvars>>

\* The rendered default texts a page load may capture.
DefaultTexts == {"default", "monthly"}

\* extractWithBrowserRender, lines 422-437: the page is loaded and its
\* default state captured, or the pass ends with "failed to load page".
BR_Load ==
    /\ pc = "br_load"
    /\ netOps' = Append(netOps, "NAVIGATE")
    /\ \/ /\ ~ctxExpired
          /\ defaultText' \in DefaultTexts
          /\ pc' = "br_tabs"
          /\ UNCHANGED <<session, bErr, bWarnings>>
       \/ /\ bErr' = "failed to load page"
          /\ bWarnings' = <<>>
          /\ session' = "closed"
          /\ pc' = "ep_after_browser"
          /\ UNCHANGED defaultText
    /\ UNCHANGED <<req, resp, dpvars, evars, ctxExpired, monthlyTab, yearlyTab, attempt,
                   monthlyClicked, yearlyClicked, monthlyText, yearlyText, bPlans,
                   bPeriods, validated, staticPlans, staticPeriods, staticWarnings,
                   recorded, llmCalls, resultFrom, clicks, sections, browserPasses,
                   failedAt, dvars, uvars, svars, cvars, tvars>>

\* extractWithBrowserRender, line 442: findBillingTabs.  A failed page script
\* or an unreadable answer gives two empty selectors (lines 586-589, 599-602).
BR_FindTabs ==
    /\ pc = "br_tabs"
    /\ \/ /\ ~ctxExpired
          /\ \E tabs \in TabLists :
                /\ monthlyTab' = findBillingTabs(tabs).monthlySelector
                /\ yearlyTab' = findBillingTabs(tabs).yearlySelector
       \/ /\ monthlyTab' = ""
          /\ yearlyTab' = ""
    /\ attempt' = 0
    /\ pc' = "br_monthly"
    /\ UNCHANGED <<req, resp, dpvars, evars, session, ctxExpired, defaultText,
                   monthlyClicked, yearlyClicked, monthlyText, yearlyText, bWarnings,
                   bPlans, bPeriods, bErr, hvars, dvars, uvars, svars, cvars, tvars>>

PcOf(side) == IF side = "monthly" THEN "br_monthly" ELSE "br_yearly"
PcAfter(side) == IF side = "monthly" THEN "br_yearly" ELSE "br_extract"
TabOf(side) == IF side = "monthly" THEN monthlyTab ELSE yearlyTab

\* The assignment of (monthlyClicked, monthlyText) or (yearlyClicked,
\* yearlyText), lines 453 and 464.
SetSide(side, clicked, text) ==
    IF side = "monthly"
    THEN /\ monthlyClicked' = clicked
         /\ monthlyText' = text
         /\ UNCHANGED <<yearlyClicked, yearlyText>>
    ELSE /\ yearlyClicked' = clicked
         /\ yearlyText' = text
         /\ UNCHANGED <<monthlyClicked, monthlyText>>

\* A pass that goes on without a word when no tab of the side is found.
BR_TabNotFoundSilent(side) ==
    /\ pc = PcOf(side)
    /\ TabOf(side) = ""
    /\ pc' = PcAfter(side)
    /\ UNCHANGED <<req, resp, dpvars, evars, bvars, hvars, dvars, uvars, svars, cvars, tvars>>

\* extractWithBrowserRender, lines 457-458 and 468-469: no tab of the side.
BR_TabNotFound(side) ==
    /\ pc = PcOf(side)
    /\ TabOf(side) = ""
    /\ LET w == IF side = "monthly" THEN "monthly_toggle_not_found"
                ELSE "yearly_toggle_not_found"
       IN  /\ bWarnings' = Append(bWarnings, w)
           /\ recorded' = Append(recorded, w)
    /\ pc' = PcAfter(side)
    /\ UNCHANGED <<req, resp, dpvars, evars, session, ctxExpired, defaultText, monthlyTab,
                   yearlyTab, attempt, monthlyClicked, yearlyClicked, monthlyText,
                   yearlyText, bPlans, bPeriods, bErr, validated, netOps, staticPlans,
                   staticPeriods, staticWarnings, llmCalls, resultFrom, clicks, sections,
                   browserPasses, failedAt, dvars, uvars, svars, cvars, tvars>>

\* The body texts a capture after a click may return.
CapturedTexts == {"default", "monthly", "yearly", "short_changed", ""}

\* The loop of clickTabWithVerification with the test attempt <= maxRetries:
\* one turn more than the code's.
BR_ClickAttemptOneMore(side) ==
    /\ pc = PcOf(side)
    /\ TabOf(side) # ""
    /\ attempt <= maxRetries
    /\ clicks' = [clicks EXCEPT ![side] = @ + 1]
    /\ attempt' = attempt + 1
    /\ UNCHANGED <<req, resp, pc, dpvars, evars, session, ctxExpired, defaultText, monthlyTab,
                   yearlyTab, monthlyClicked, yearlyClicked, monthlyText, yearlyText,
                   bWarnings, bPlans, bPeriods, bErr, validated, netOps,
                   staticPlans, staticPeriods, staticWarnings, recorded, llmCalls,
                   resultFrom, sections, browserPasses, failedAt, dvars, uvars, svars, cvars, tvars>>

\* clickTabWithVerification, one turn of the loop (lines 657-690): the click,
\* the capture and verifyStateChange against previousText, which is the
\* default text for both sides (lines 452 and 463).
BR_ClickAttempt(side) ==
    /\ pc = PcOf(side)
    /\ TabOf(side) # ""
    /\ attempt < maxRetries
    /\ clicks' = [clicks EXCEPT ![side] = @ + 1]
    /\ \/ \* the click or the capture fails
          /\ attempt' = attempt + 1
          /\ UNCHANGED <<pc, monthlyClicked, yearlyClicked, monthlyText, yearlyText>>
       \/ /\ ~ctxExpired
          /\ \E t \in CapturedTexts : \E ariaChanged \in BOOLEAN : \E urlHasType \in BOOLEAN :
                IF verifyStateChange(TextOf(t), TextOf(defaultText), side, ariaChanged,
                                     urlHasType)
                THEN /\ SetSide(side, TRUE, t)
                     /\ attempt' = 0
                     /\ pc' = PcAfter(side)
                ELSE /\ attempt' = attempt + 1
                     /\ UNCHANGED <<pc, monthlyClicked, yearlyClicked, monthlyText,
                                    yearlyText>>
    /\ UNCHANGED <<req, resp, dpvars, evars, session, ctxExpired, defaultText, monthlyTab,
                   yearlyTab, bWarnings, bPlans, bPeriods, bErr, validated, netOps,
                   staticPlans, staticPeriods, staticWarnings, recorded, llmCalls,
                   resultFrom, sections, browserPasses, failedAt, dvars, uvars, svars, cvars, tvars>>

\* clickTabWithVerification, line 692, and lines 454-456 / 465-467: the tries
\* are used up.
BR_ClickExhausted(side) ==
    /\ pc = PcOf(side)
    /\ TabOf(side) # ""
    /\ attempt = maxRetries
    /\ SetSide(side, FALSE, "")
    /\ LET w == IF side = "monthly" THEN "monthly_toggle_failed" ELSE "yearly_toggle_failed"
       IN  /\ bWarnings' = Append(bWarnings, w)
           /\ recorded' = Append(recorded, w)
    /\ attempt' = 0
    /\ pc' = PcAfter(side)
    /\ UNCHANGED <<req, resp, dpvars, evars, session, ctxExpired, defaultText, monthlyTab,
                   yearlyTab, bPlans, bPeriods, bErr, validated, netOps, staticPlans,
                   staticPeriods, staticWarnings, llmCalls, resultFrom, clicks, sections,
                   browserPasses, failedAt, dvars, uvars, svars, cvars, tvars>>

\* extractWithBrowserRender, lines 474-491: the labelled sections of the
\* content handed to the extraction.
Sections ==
    (IF monthlyClicked /\ monthlyText # "" THEN <<"MONTHLY">> ELSE <<>>)
    \o (IF yearlyClicked /\ yearlyText # "" THEN <<"YEARLY">> ELSE <<>>)
    \o (IF ~monthlyClicked /\ ~yearlyClicked THEN <<"DEFAULT">> ELSE <<>>)

\* extractWithBrowserRender, lines 471-519: the content is assembled, the
\* extraction runs on it (under the request's context, not the browser's),
\* and the pass returns; the deferred cancels end the browser context.
BR_Extract ==
    /\ pc = "br_extract"
    /\ sections' = Sections
    /\ llmCalls' = llmCalls + 1
    /\ netOps' = (IF req.keyConfigured THEN Append(netOps, "LLM") ELSE netOps)
    /\ session' = "closed"
    /\ pc' = "ep_after_browser"
    /\ LET noToggle == IF ~monthlyClicked /\ ~yearlyClicked THEN <<"no_toggle_clicked">>
                       ELSE <<>>
       IN  \E reply \in LLMReplies :
              LET r == extractWithLLM(req.keyConfigured, reply)
              IN  IF r.err # "nil"
                  THEN /\ bErr' = "LLM extraction failed"
                       /\ bPlans' = <<>>
                       /\ bPeriods' = <<>>
                       /\ bWarnings' = <<>>
                       /\ recorded' = recorded \o noToggle \o r.warnings
                  ELSE \E dp \in deduplicatePlans(r.plans) :
                       \E per \in detectBillingPeriods(dp) :
                          /\ bErr' = "nil"
                          /\ bPlans' = dp
                          /\ bPeriods' = per
                          /\ bWarnings' = bWarnings \o noToggle \o r.warnings
                          /\ recorded' = recorded \o noToggle \o r.warnings
    /\ UNCHANGED <<req, resp, dpvars, evars, ctxExpired, defaultText, monthlyTab,
                   yearlyTab, attempt, monthlyClicked, yearlyClicked, monthlyText,
                   yearlyText, validated, staticPlans, staticPeriods, staticWarnings,
                   resultFrom, clicks, browserPasses, failedAt, dvars, uvars, svars, cvars, tvars>>

\* A failed browser pass answered with a response-level error.
BrowserFailedFatal(pl, url, per, need, w) ==
    [NoResponse EXCEPT !.Error = <<"browser render failed">>,
                       !.Warnings = Append(w, "browser_render_failed")]

\* ExtractPricing, lines 324-327 and 348-355: the response after a browser
\* pass that returned an error.
BrowserFailedResponse(pl, url, per, need, w) ==
    PlansResponse(pl, url, per, need, FALSE, Append(w, "browser_render_failed"))

\* ExtractPricing, lines 323-356: the browser pass has returned.
EP_AfterBrowser ==
    /\ pc = "ep_after_browser"
    /\ pc' = "done"
    /\ IF bErr # "nil"
       THEN /\ warnings' = Append(warnings, "browser_render_failed")
            /\ recorded' = Append(recorded, "browser_render_failed")
            /\ resp' = BrowserFailedResponse(plans, req.url, periods, needsRender, warnings)
            /\ resultFrom' = "static"
            /\ UNCHANGED <<plans, periods, bPlans>>
       ELSE \E bp \in deduplicatePlans(bPlans) :
               /\ bPlans' = bp
               /\ IF UseBrowserResults(bp, bPeriods, plans, periods)
                  THEN /\ plans' = bp
                       /\ periods' = bPeriods
                       /\ warnings' = warnings \o bWarnings
                       /\ resp' = PlansResponse(bp, req.url, bPeriods, FALSE, TRUE,
                                                warnings \o bWarnings)
                       /\ resultFrom' = "browser"
                  ELSE /\ resp' = PlansResponse(plans, req.url, periods, needsRender,
                                                FALSE, warnings)
                       /\ resultFrom' = "static"
                       /\ UNCHANGED <<plans, periods, warnings>>
               /\ UNCHANGED recorded
    /\ UNCHANGED <<req, dpvars, hasToggle, needsRender, session, ctxExpired, defaultText,
                   monthlyTab, yearlyTab, attempt, monthlyClicked, yearlyClicked,
                   monthlyText, yearlyText, bWarnings, bPeriods, bErr, validated, netOps,
                   staticPlans, staticPeriods, staticWarnings, llmCalls, clicks, sections,
                   browserPasses, failedAt, dvars, uvars, svars, cvars, tvars>>

\* defaultWebsite
defaultWebsite == <<"https", "://", "www.usemotion.com", "/">>

\* commonPricingPaths (package variable)
commonPricingPaths ==
    <<"/pricing", "/plans", "/billing", "/upgrade", "/subscribe", "/pro", "/premium">>

\* pricingKeywords (package variable)
pricingKeywords ==
    { <<"p", "r", "i", "c", "i", "n", "g">>,
      <<"p", "r", "i", "c", "e">>,
      <<"p", "l", "a", "n">>,
      <<"p", "l", "a", "n", "s">>,
      <<"b", "i", "l", "l", "i", "n", "g">>,
      <<"u", "p", "g", "r", "a", "d", "e">>,
      <<"s", "u", "b", "s", "c", "r", "i", "b", "e">>,
      <<"s", "i", "g", "n", "u", "p">>,
      <<"m", "e", "m", "b", "e", "r", "s", "h", "i", "p">>,
      <<"p", "r", "o">>,
      <<"p", "r", "e", "m", "i", "u", "m">>,
      <<"e", "n", "t", "e", "r", "p", "r", "i", "s", "e">> }

\* The characters of a token of a link.
Spell(tok) ==
    CASE tok = "https" -> <<"h", "t", "t", "p", "s">>
      [] tok = "http" -> <<"h", "t", "t", "p">>
      [] tok = "://" -> <<":", "/", "/">>
      [] tok = "other.com" -> <<"o", "t", "h", "e", "r", ".", "c", "o", "m">>
      [] tok = "/pricing" -> <<"/", "p", "r", "i", "c", "i", "n", "g">>
      [] tok = "/plans" -> <<"/", "p", "l", "a", "n", "s">>
      [] tok = "/about" -> <<"/", "a", "b", "o", "u", "t">>
      [] tok = "/Premium" -> <<"/", "P", "r", "e", "m", "i", "u", "m">>
      [] tok = "/pro" -> <<"/", "p", "r", "o">>
      [] tok = "#pricing" -> <<"#", "p", "r", "i", "c", "i", "n", "g">>
      [] tok = "/products" -> <<"/", "p", "r", "o", "d", "u", "c", "t", "s">>

RECURSIVE SpellAll(_)
SpellAll(link) == IF link = <<>> THEN <<>> ELSE Spell(Head(link)) \o SpellAll(Tail(link))

\* The href values extractLinksFromPage may find on a homepage, in document
\* order.
LinkLists ==
    { <<>>,
      << <<"/about">>, <<"/plans">> >>,
      << <<"/Premium">>, <<"#pricing">>, <<"/products">> >>,
      << <<"https", "://", "other.com", "/pro">>, <<"/pricing">>, <<"/pricing">> >> }

FragmentToks == {"#pricing"}

\* resolveURL: base.ResolveReference(ref).String() for a reference that is
\* a fragment, an absolute URL, a rooted path, or a path relative to the
\* root directory of the base.
resolveURL(base, link) ==
    IF link = <<>> THEN URLString(base)
    ELSE IF link[1] \in FragmentToks THEN URLString(base) \o link
    ELSE LET refURL == ParseURL(link)
         IN  IF ~refURL.ok THEN <<>>
             ELSE IF refURL.Scheme # "" THEN URLString(refURL)
             ELSE IF refURL.Path # <<>> /\ refURL.Path[1] \in PathToks
             THEN URLString([base EXCEPT !.Path = refURL.Path])
             ELSE URLString([base EXCEPT !.Path = <<"/">> \o refURL.Path])

\* containsURL
containsURL(urls, target) == \E i \in 1..Len(urls) : urls[i] = target

\* DiscoverPricingPage, line 206: the URL probed for a common path.
TestURL(base, path) ==
    <<base.Scheme, "://">>
        \o (IF base.Hostname = "" THEN <<>> ELSE <<base.Hostname>>)
        \o (IF base.Port = "" THEN <<>> ELSE <<base.Port>>)
        \o <<path>>

\* DiscoverPricingPage, lines 205-211: the loop over commonPricingPaths[i..]
\* (i counts from 1), exists being the paths whose HEAD probe answered 200.
RECURSIVE ProbeLoop(_, _, _, _)
ProbeLoop(base, exists, i, acc) ==
    IF i > Len(commonPricingPaths) THEN acc
    ELSE LET testURL == TestURL(base, commonPricingPaths[i])
         IN  IF i \in exists
             THEN ProbeLoop(base, exists, i + 1,
                            [list   |-> Append(acc.list, testURL),
                             scores |-> acc.scores @@ (testURL :> 100 - (i - 1) * 10)])
             ELSE ProbeLoop(base, exists, i + 1, acc)

\* DiscoverPricingPage, lines 216-230: the loop over homepageLinks[i..].
RECURSIVE LinkLoop(_, _, _, _)
LinkLoop(base, links, i, acc) ==
    IF i > Len(links) THEN acc
    ELSE LET linkLower == ToLower(SpellAll(links[i]))
             fullURL   == resolveURL(base, links[i])
         IN  IF (\E keyword \in pricingKeywords : Contains(linkLower, keyword))
                /\ fullURL # <<>> /\ ~containsURL(acc.list, fullURL)
             THEN LinkLoop(base, links, i + 1,
                           [list   |-> Append(acc.list, fullURL),
                            scores |-> acc.scores @@ (fullURL :> 50)])
             ELSE LinkLoop(base, links, i + 1, acc)

\* All orders of a finite set.
Perms(S) ==
    LET n == Cardinality(S)
    IN  {s \in [1..n -> S] : \A i, j \in 1..n : i # j => s[i] # s[j]}

\* DiscoverPricingPage, lines 234-236: the orders sort.Slice can leave the
\* candidates in; the sort is not stable, candidates of equal score may come
\* out in any order.
RECURSIVE SortByScore(_, _)
SortByScore(cands, scores) ==
    IF cands = {} THEN {<<>>}
    ELSE LET top == CHOOSE v \in {scores[c] : c \in cands} :
                        \A c \in cands : scores[c] <= v
             grp == {c \in cands : scores[c] = top}
         IN  {p \o rest : p \in Perms(grp), rest \in SortByScore(cands \ grp, scores)}

\* The candidates without the cut to five.
KeepAll(list) == list

\* DiscoverPricingPage, lines 239-241.
TopFive(list) == IF Len(list) > 5 THEN SubSeq(list, 1, 5) ELSE list

\* DiscoverPricingPage, lines 189-191: the response to an invalid URL.
DiscoverInvalidURLResponse(err) ==
    [NoResponse EXCEPT !.Error = <<"invalid URL: ", err>>]

\* DiscoverPricingPage, lines 244-252.
DiscoverResponse(list) ==
    [NoResponse EXCEPT !.PricingCandidates = list,
                       !.SelectedPricingURL = IF list = <<>> THEN <<>> ELSE list[1]]

\* DiscoverPricingPage, lines 183-199: the URL is normalised, defaulted and
\* validated.  The url.Parse of lines 194-199 repeats the one validateURL
\* made and cannot fail after it.
DP_Validate ==
    /\ pc = "dp_validate"
    /\ LET n == normalizeURL(req.url)
           w == IF n = <<>> THEN defaultWebsite ELSE n
           err == validateURL(w)
       IN  /\ websiteURL' = w
           /\ validated' = Append(validated, w)
           /\ IF err # "nil"
              THEN /\ resp' = DiscoverInvalidURLResponse(err)
                   /\ failedAt' = "validation"
                   /\ pc' = "done"
              ELSE /\ pc' = "dp_probe"
                   /\ UNCHANGED <<resp, failedAt>>
    /\ UNCHANGED <<req, candidates, candidateScores, probed, evars, bvars, netOps, staticPlans,
                   staticPeriods, staticWarnings, recorded, llmCalls, resultFrom, clicks,
                   sections, browserPasses, dvars, uvars, svars, cvars, tvars>>

\* DiscoverPricingPage, lines 201-211: a HEAD probe of each common path.
DP_Probe ==
    /\ pc = "dp_probe"
    /\ netOps' = netOps \o [i \in 1..Len(commonPricingPaths) |-> "HEAD"]
    /\ \E exists \in SUBSET (1..Len(commonPricingPaths)) :
          /\ Resolve(ParseURL(websiteURL).Hostname) = "nxdomain" => exists = {}
          /\ LET acc == ProbeLoop(ParseURL(websiteURL), exists, 1,
                                  [list |-> <<>>, scores |-> <<>>])
             IN  /\ candidates' = acc.list
                 /\ candidateScores' = acc.scores
                 /\ probed' = acc.list
    /\ pc' = "dp_links"
    /\ UNCHANGED <<req, resp, websiteURL, evars, bvars, validated, staticPlans,
                   staticPeriods, staticWarnings, recorded, llmCalls, resultFrom, clicks,
                   sections, browserPasses, failedAt, dvars, uvars, svars, cvars, tvars>>

\* What extractLinksFromPage may give the loop of lines 216-230: the links of
\* the page, or none when the fetch failed (line 215).
HomepageLinks(url) ==
    IF Resolve(ParseURL(url).Hostname) = "nxdomain" THEN {<<>>} ELSE LinkLists

\* DiscoverPricingPage, lines 213-252: the homepage's links are added, the
\* candidates sorted and cut to five, the first one selected.
DP_Links ==
    /\ pc = "dp_links"
    /\ netOps' = Append(netOps, "GET")
    /\ \E links \in HomepageLinks(websiteURL) :
          LET acc == LinkLoop(ParseURL(websiteURL), links, 1,
                              [list |-> candidates, scores |-> candidateScores])
          IN  \E sorted \in SortByScore({acc.list[i] : i \in 1..Len(acc.list)}, acc.scores) :
                 /\ candidates' = TopFive(sorted)
                 /\ candidateScores' = acc.scores
                 /\ resp' = DiscoverResponse(TopFive(sorted))
    /\ pc' = "done"
    /\ UNCHANGED <<req, websiteURL, probed, evars, bvars, validated, staticPlans, staticPeriods,
                   staticWarnings, recorded, llmCalls, resultFrom, clicks, sections,
                   browserPasses, failedAt, dvars, uvars, svars, cvars, tvars>>

Next ==
    \/ EP_Validate
    \/ EP_Fetch
    \/ EP_Extract
    \/ BR_Open
    \/ ContextTimeout
    \/ BR_Load
    \/ BR_FindTabs
    \/ \E side \in {"monthly", "yearly"} : BR_TabNotFound(side)
    \/ \E side \in {"monthly", "yearly"} : BR_ClickAttempt(side)
    \/ \E side \in {"monthly", "yearly"} : BR_ClickExhausted(side)
    \/ BR_Extract
    \/ EP_AfterBrowser
    \/ DP_Validate
    \/ DP_Probe
    \/ DP_Links

Spec == PInit /\ [][Next]_vars

-----------------------------------------------------------------------------
(* SavePlans and GetSavedPlans (lines 900-963).  The service code is under  *)
(* the source tree; the repository behind s.repo is not, and its three      *)
(* operations are written from the specification's description of the       *)
(* persistence collaborator: a per-user collection of plan documents.       *)

HexDigits == {"0","1","2","3","4","5","6","7","8","9","a","b","c","d","e","f"}

\* primitive.ObjectIDFromHex succeeds on 24 hexadecimal digits (line 901).
ObjectIDFromHex(userID) ==
    /\ Len(userID) = 24
    /\ \A i \in 1..Len(userID) : userID[i] \in HexDigits

\* The user ids of the harness: two valid ones, one too short, one not hex.
UserIDs ==
    { [i \in 1..24 |-> "a"], [i \in 1..24 |-> "b"],
      <<"a", "b", "c">>, [i \in 1..24 |-> "g"] }

\* The plan lists a request carries (req.Plans), by plan name.
SavePlanLists == { <<>>, <<"Pro">>, <<"Pro", "Team">> }

\* The documents lines 914-933 build for a call: one per plan, in order.
\* batch stands for the identity the insert gives each document.
ConvertPlans(c, request) ==
    [i \in 1..Len(request.plans) |->
        [UserID |-> request.userID, PlanName |-> request.plans[i], batch |-> c]]

\* repo.FindByUserID: the documents of the user.
FindByUserID(coll, uid) == {d \in coll : d.UserID = uid}

\* repo.DeleteByUserID: removes the user's documents, or fails and removes
\* nothing.
DeleteByUserID(coll, uid, ok) ==
    IF ok THEN coll \ FindByUserID(coll, uid) ELSE coll

\* repo.CreateMany: inserts the documents and reports their number, or fails
\* and inserts nothing.
CreateMany(coll, docs, ok) ==
    IF ok THEN [coll |-> coll \cup {docs[i] : i \in 1..Len(docs)}, count |-> Len(docs), err |-> FALSE]
    ELSE [coll |-> coll, count |-> 0, err |-> TRUE]

\* GetSavedPlans (lines 948-963).
GetSavedPlans(coll, userID) ==
    IF ~ObjectIDFromHex(userID)
    THEN [goErr |-> "invalid user ID", Plans |-> {}, Count |-> 0]
    ELSE [goErr |-> "", Plans |-> FindByUserID(coll, userID),
          Count |-> Cardinality(FindByUserID(coll, userID))]

\* The collection before the calls: empty, or one earlier extraction of the
\* first user.
PriorStores ==
    { {}, {[UserID |-> [i \in 1..24 |-> "a"], PlanName |-> "Starter", batch |-> "c0"]} }

SInit ==
    /\ store \in PriorStores
    /\ spc = [c \in Calls |-> "start"]
    /\ sreq \in [Calls -> [userID : UserIDs, plans : SavePlanLists]]
    /\ sresp = [c \in Calls |-> [Error |-> "", SavedCount |-> 0]]
    /\ atStart = [c \in Calls |-> {}]
    /\ atReturn = [c \in Calls |-> {}]
    /\ between = [c \in Calls |-> FALSE]
    /\ DIdle
    /\ UIdle
    /\ PIdle
    /\ CIdle
    /\ TIdle

\* A write of call c to the collection is seen by the calls in progress.
Overlapped(c, coll) ==
    [o \in Calls |->
        between[o] \/ (o # c /\ spc[o] \in {"delete", "insert"} /\ coll # store)]

\* Lines 901-906: the user id is parsed; a bad one is answered at once.
SP_Validate(c) ==
    /\ spc[c] = "start"
    /\ atStart' = [atStart EXCEPT ![c] = GetSavedPlans(store, sreq[c].userID).Plans]
    /\ IF ObjectIDFromHex(sreq[c].userID)
       THEN /\ spc' = [spc EXCEPT ![c] = "delete"]
            /\ UNCHANGED <<sresp, atReturn>>
       ELSE /\ spc' = [spc EXCEPT ![c] = "done"]
            /\ sresp' = [sresp EXCEPT ![c] = [Error |-> "invalid user ID", SavedCount |-> 0]]
            /\ atReturn' = [atReturn EXCEPT ![c] = GetSavedPlans(store, sreq[c].userID).Plans]
    /\ UNCHANGED <<store, sreq, between, dvars, uvars, pvars, cvars, tvars>>

\* Lines 909-911: the user's documents are deleted; an error of the delete
\* is logged and the call goes on.
SP_Delete(c) ==
    /\ spc[c] = "delete"
    /\ \E ok \in BOOLEAN :
        /\ store' = DeleteByUserID(store, sreq[c].userID, ok)
        /\ between' = Overlapped(c, DeleteByUserID(store, sreq[c].userID, ok))
    /\ spc' = [spc EXCEPT ![c] = "insert"]
    /\ UNCHANGED <<sreq, sresp, atStart, atReturn, dvars, uvars, pvars, cvars, tvars>>

\* Lines 914-944: the plans are converted and inserted; an error of the
\* insert is the response's Error, otherwise the count is SavedCount.
SP_Create(c) ==
    /\ spc[c] = "insert"
    /\ \E ok \in BOOLEAN :
        LET r == CreateMany(store, ConvertPlans(c, sreq[c]), ok) IN
        /\ store' = r.coll
        /\ between' = Overlapped(c, r.coll)
        /\ sresp' = [sresp EXCEPT ![c] =
                        IF r.err THEN [Error |-> "failed to save plans", SavedCount |-> 0]
                        ELSE [Error |-> "", SavedCount |-> r.count]]
        /\ atReturn' = [atReturn EXCEPT ![c] = GetSavedPlans(r.coll, sreq[c].userID).Plans]
    /\ spc' = [spc EXCEPT ![c] = "done"]
    /\ UNCHANGED <<sreq, atStart, dvars, uvars, pvars, cvars, tvars>>

SNext == \E c \in Calls : SP_Validate(c) \/ SP_Delete(c) \/ SP_Create(c)

SpecSave == SInit /\ [][SNext]_vars

-----------------------------------------------------------------------------
(* Concurrent requests of ExtractPricing and the browser sessions of their  *)
(* passes.  What a request extracts is left to the pipeline above; here a   *)
(* request is its path through ExtractPricing and extractWithBrowserRender, *)
(* the session its pass allocates, and the ways the pass ends.              *)

MaxSessions == 3

CInit ==
    /\ cpc = [r \in Reqs |-> "start"]
    /\ CZero
    /\ DIdle
    /\ UIdle
    /\ PIdle
    /\ SIdle
    /\ TIdle

\* UNCHANGED of every variable outside this harness.
COthers == UNCHANGED <<dvars, uvars, pvars, svars, tvars>>

\* ExtractPricing, lines 256-320: the static pass either returns (an error,
\* or plans without a browser pass) or calls extractWithBrowserRender.
CE_Static(r) ==
    /\ cpc[r] = "start"
    /\ \/ cpc' = [cpc EXCEPT ![r] = "returned"]
       \/ /\ nextSession <= MaxSessions
          /\ cpc' = [cpc EXCEPT ![r] = "br_open"]
    /\ UNCHANGED <<csess, cexpired, cexit, live, ranOn, nextSession>>
    /\ COthers

\* A browser process shared by the requests: a live session is taken over
\* when there is one.
CE_OpenShared(r) ==
    /\ cpc[r] = "br_open"
    /\ IF live # {}
       THEN /\ csess' = [csess EXCEPT ![r] = CHOOSE id \in live : TRUE]
            /\ UNCHANGED <<live, nextSession>>
       ELSE /\ csess' = [csess EXCEPT ![r] = nextSession]
            /\ live' = live \cup {nextSession}
            /\ nextSession' = nextSession + 1
    /\ cpc' = [cpc EXCEPT ![r] = "br_load"]
    /\ UNCHANGED <<cexpired, cexit, ranOn>>
    /\ COthers

\* extractWithBrowserRender, lines 394-418: NewExecAllocator and NewContext
\* start a browser of the call's own, under a 60-second timeout.
CE_Open(r) ==
    /\ cpc[r] = "br_open"
    /\ csess' = [csess EXCEPT ![r] = nextSession]
    /\ live' = live \cup {nextSession}
    /\ nextSession' = nextSession + 1
    /\ cpc' = [cpc EXCEPT ![r] = "br_load"]
    /\ UNCHANGED <<cexpired, cexit, ranOn>>
    /\ COthers

\* The 60 seconds of the request's browser context run out.
CE_Expire(r) ==
    /\ cpc[r] \in {"br_load", "br_work"}
    /\ ~cexpired[r]
    /\ cexpired' = [cexpired EXCEPT ![r] = TRUE]
    /\ UNCHANGED <<cpc, csess, cexit, live, ranOn, nextSession>>
    /\ COthers

\* The deferred cancelTimeout, cancelBrowser and cancel (lines 412, 415, 418)
\* on the return of extractWithBrowserRender: the session of r is gone.
Release(r) == live \ {csess[r]}

\* extractWithBrowserRender, lines 428-437: the page is loaded, or the pass
\* returns "failed to load page".
CE_Load(r) ==
    /\ cpc[r] = "br_load"
    /\ ranOn' = ranOn \cup {<<csess[r], r>>}
    /\ \/ /\ ~cexpired[r]
          /\ cpc' = [cpc EXCEPT ![r] = "br_work"]
          /\ UNCHANGED <<cexit, live>>
       \/ /\ cexit' = [cexit EXCEPT ![r] = IF cexpired[r] THEN "timeout" ELSE "load_failed"]
          /\ live' = Release(r)
          /\ cpc' = [cpc EXCEPT ![r] = "after"]
    /\ UNCHANGED <<csess, cexpired, nextSession>>
    /\ COthers

\* extractWithBrowserRender, lines 442-469: findBillingTabs and the clicks,
\* whose failures do not end the pass.
CE_Work(r) ==
    /\ cpc[r] = "br_work"
    /\ ranOn' = ranOn \cup {<<csess[r], r>>}
    /\ cpc' = [cpc EXCEPT ![r] = "br_extract"]
    /\ UNCHANGED <<csess, cexpired, cexit, live, nextSession>>
    /\ COthers

\* extractWithBrowserRender, lines 471-519: the extraction over the captured
\* texts fails or succeeds, and the pass returns.
CE_Extract(r) ==
    /\ cpc[r] = "br_extract"
    /\ \E ok \in BOOLEAN :
          cexit' = [cexit EXCEPT ![r] = IF ~ok THEN "extraction_failed"
                                        ELSE IF cexpired[r] THEN "timeout"
                                        ELSE "success"]
    /\ live' = Release(r)
    /\ cpc' = [cpc EXCEPT ![r] = "after"]
    /\ UNCHANGED <<csess, cexpired, ranOn, nextSession>>
    /\ COthers

\* ExtractPricing, lines 323-355: the response is built and returned.
CE_Return(r) ==
    /\ cpc[r] = "after"
    /\ cpc' = [cpc EXCEPT ![r] = "returned"]
    /\ UNCHANGED <<csess, cexpired, cexit, live, ranOn, nextSession>>
    /\ COthers

\* The next request of the slot.
CE_Again(r) ==
    /\ cpc[r] = "returned"
    /\ cpc' = [cpc EXCEPT ![r] = "start"]
    /\ csess' = [csess EXCEPT ![r] = 0]
    /\ cexpired' = [cexpired EXCEPT ![r] = FALSE]
    /\ cexit' = [cexit EXCEPT ![r] = ""]
    /\ UNCHANGED <<live, ranOn, nextSession>>
    /\ COthers

CNext ==
    \E r \in Reqs :
        \/ CE_Static(r)
        \/ CE_Open(r)
        \/ CE_Expire(r)
        \/ CE_Load(r)
        \/ CE_Work(r)
        \/ CE_Extract(r)
        \/ CE_Return(r)
        \/ CE_Again(r)

SpecConc == CInit /\ [][CNext]_vars

-----------------------------------------------------------------------------
(* findBillingTabs (lines 604-650) on lists of candidates: the score loop   *)
(* applied to what the page script returned.                                *)

\* The candidates a page may have: ARIA tabs with and without billing words,
\* buttons with one side's word, with both, with the same word twice over,
\* with none, and a label.
TabUniverse ==
    { Tab("tab1", <<"M", "o", "n", "t", "h", "l", "y">>, "true", "role-tab"),
      Tab("tab2", <<"Y", "e", "a", "r", "l", "y">>, "false", "role-tab"),
      Tab("tab3", <<"F", "e", "a", "t", "u", "r", "e", "s">>, "true", "role-tab"),
      Tab("button1", <<"M", "o", "n", "t", "h", "l", "y", " ", "/", " ", "Y", "e", "a", "r", "l", "y">>, "", "button"),
      Tab("button2", <<"M", "o", "n", "t", "h", "l", "y">>, "", "button"),
      Tab("button3", <<" ", "m", "o", "n", "t", "h", "l", "y", " ">>, "", "button"),
      Tab("button4", <<"A", "n", "n", "u", "a", "l">>, "", "button"),
      Tab("button5", <<"P", "r", "i", "c", "i", "n", "g">>, "", "button"),
      Tab("label1", <<"P", "a", "y", " ", "y", "e", "a", "r", "l", "y", ",", " ", "s", "a", "v", "e", " ", "2", "0", "%">>, "", "label") }

MaxTabs == 3

\* The lists the page script may return: distinct elements, in any order.
TabInputs ==
    UNION { {l \in [1..n -> TabUniverse] : \A i, j \in 1..n : i # j => l[i] # l[j]} :
            n \in 0..MaxTabs }

TInit ==
    /\ tpc = "start"
    /\ tabsIn \in TabInputs
    /\ tabsOut = [monthlySelector |-> "", monthlyScore |-> 0,
                  yearlySelector |-> "", yearlyScore |-> 0]
    /\ simIn = << <<>>, <<>> >>
    /\ simOut = << <<1, 1>>, <<1, 1>> >>
    /\ DIdle
    /\ UIdle
    /\ PIdle
    /\ SIdle
    /\ CIdle

\* findBillingTabs, lines 604-650.
FindTabs ==
    /\ tpc = "start"
    /\ tabsOut' = findBillingTabs(tabsIn)
    /\ tpc' = "done"
    /\ UNCHANGED <<tabsIn, simIn, simOut, dvars, uvars, pvars, svars, cvars>>

SpecTabs == TInit /\ [][FindTabs]_vars

-----------------------------------------------------------------------------
(* textSimilarity (lines 766-793) on pairs of texts.                        *)

MaxWords == 3

\* The words of the texts: one word in two cases, and another word.
SimWords == {<<"a">>, <<"A">>, <<"b">>}

\* The words of the list with one blank between them.
RECURSIVE JoinWords(_)
JoinWords(ws) ==
    IF ws = <<>> THEN <<>>
    ELSE IF Len(ws) = 1 THEN ws[1]
    ELSE ws[1] \o <<" ">> \o JoinWords(Tail(ws))

\* The texts of up to MaxWords words.
SimTexts == UNION { {JoinWords(ws) : ws \in [1..n -> SimWords]} : n \in 0..MaxWords }

MInit ==
    /\ tpc = "start"
    /\ simIn \in SimTexts \X SimTexts
    /\ simOut = << <<1, 1>>, <<1, 1>> >>
    /\ tabsIn = <<>>
    /\ tabsOut = [monthlySelector |-> "", monthlyScore |-> 0,
                  yearlySelector |-> "", yearlyScore |-> 0]
    /\ DIdle
    /\ UIdle
    /\ PIdle
    /\ SIdle
    /\ CIdle

\* textSimilarity of the two texts, called in both orders.
Similarity ==
    /\ tpc = "start"
    /\ simOut' = <<textSimilarity(simIn[1], simIn[2]), textSimilarity(simIn[2], simIn[1])>>
    /\ tpc' = "done"
    /\ UNCHANGED <<simIn, tabsIn, tabsOut, dvars, uvars, pvars, svars, cvars>>

SpecSim == MInit /\ [][Similarity]_vars

(***************************************************************************)
(* Properties of ExtractPricing and DiscoverPricingPage                    *)
(***************************************************************************)

\* The codes of a list of warnings.
Codes(w) == {w[i] : i \in 1..Len(w)}

C2_AdoptedIffStrictlyBetter ==
    (pc = "done" /\ browserPasses > 0 /\ bErr = "nil") =>
        LET better == \/ Len(bPlans) > Len(staticPlans)
                      \/ Len(bPeriods) > Len(staticPeriods)
        IN  /\ (resultFrom = "browser") <=> better
            /\ better => resp.Plans = bPlans /\ resp.DetectedPeriods = bPeriods
            /\ ~better => resp.Plans = staticPlans /\ resp.DetectedPeriods = staticPeriods

\* C2, its case: a browser result with fewer plans but more periods than
\* the static result is in the response.
C2_Witness ==
    /\ pc = "done"
    /\ bErr = "nil"
    /\ browserPasses > 0
    /\ Len(bPlans) < Len(staticPlans)
    /\ Len(bPeriods) > Len(staticPeriods)
    /\ resp.Plans = bPlans

\* C3: when the browser pass returned without error and its result is not
\* adopted, the response keeps the static result and its warnings hold one
\* more code, noting the fallback, than the static pass left.
C3_FallbackWarningAppended ==
    (pc = "done" /\ browserPasses > 0 /\ bErr = "nil" /\ resultFrom = "static") =>
        /\ resp.Plans = staticPlans
        /\ Len(resp.Warnings) > Len(staticWarnings)

\* C4: the response's warnings are every warning code a stage of the
\* request recorded, in the order recorded.
C4_WarningsAppendOnly ==
    (pc = "done" /\ req.kind = "extract") => resp.Warnings = recorded

\* C5: no error value crosses the API boundary.  An invalid URL (both
\* entry points), a failed fetch of the page and a failed static extraction
\* (ExtractPricing) give a response with a non-empty error and no plans and
\* no candidates; no response has both an error and plans.
C5_ErrorsInResponse ==
    pc = "done" =>
        /\ resp.goErr = "nil"
        /\ (validateURL(validated[Len(validated)]) # "nil"
               \/ failedAt \in {"fetch", "extraction"}) =>
               /\ resp.Error # <<>>
               /\ resp.Plans = <<>>
               /\ resp.PricingCandidates = <<>>
        /\ ~(resp.Error # <<>> /\ resp.Plans # <<>>)

\* C5, its case: ExtractPricing answered an invalid URL.
C5_Witness ==
    /\ pc = "done"
    /\ req.kind = "extract"
    /\ validateURL(req.url) # "nil"
    /\ resp.Error # <<>>

\* C6: whenever a pass's reply could not be parsed as JSON (the pass
\* recorded parse_error), the response's warnings contain parse_error.
C6_ParseErrorSurfaced ==
    (pc = "done" /\ "parse_error" \in Codes(recorded)) =>
        "parse_error" \in Codes(resp.Warnings)

\* A URL string without a scheme.
SchemeLess(u) ==
    /\ u # <<>>
    /\ ~(Len(u) >= 2 /\ u[2] = "://")
    /\ u[1] \notin InvalidHosts

\* C8: an input without a scheme is validated as https://<input>, with the
\* path / when it has none, by both entry points, and is not rejected.
C8_SchemeAddedBeforeValidation ==
    (validated # <<>> /\ SchemeLess(req.url)) =>
        /\ validated[1] = <<"https", "://">> \o req.url
                              \o (IF Len(req.url) = 1 THEN <<"/">> ELSE <<>>)
        /\ failedAt # "validation"

(***************************************************************************)
(* Properties of merging and ordering in deduplicatePlans                  *)
(***************************************************************************)

\* C11: a record of the result has at least as many features, and at least
\* as many included units, as every input record merged into it (every input
\* record with its canonical key), and it has a monthly equivalent amount, or
\* an annual billed amount, when one of them has.
C11_MergeKeepsMost ==
    dpc = "once" =>
        \A i \in 1..Len(dOut1) : \A j \in 1..Len(dIn) :
            canonicalPlanKey(dIn[j]) = canonicalPlanKey(dOut1[i]) =>
                /\ Len(dOut1[i].Features) >= Len(dIn[j].Features)
                /\ Len(dOut1[i].IncludedUnits) >= Len(dIn[j].IncludedUnits)
                /\ dIn[j].MonthlyEquivalentAmount # 0 => dOut1[i].MonthlyEquivalentAmount # 0
                /\ dIn[j].AnnualBilledAmount # 0 => dOut1[i].AnnualBilledAmount # 0

\* C11, its case: three records were merged into one that has the features
\* of one, the included units of another and an amount the first one seen
\* did not have.
C11_Witness ==
    /\ dpc = "once"
    /\ Len(dIn) = 3
    /\ Len(dOut1) = 1
    /\ dOut1[1].IncludedUnits # <<>>
    /\ Len(dOut1[1].Features) = 2
    /\ dIn[1].Features = <<>>

\* C12: the result of deduplicatePlans is in non-decreasing (name,
\* billing_period) order and two executions on the same input return the
\* same sequence of records.
C12_DedupDeterministic ==
    /\ dpc = "once" =>
           \A i, j \in 1..Len(dOut1) : i < j => ~PlanLess(dOut1[j], dOut1[i])
    /\ dpc = "again" => dOut2 = dOut1

(***************************************************************************)
(* Properties of the responses, continued                                  *)
(***************************************************************************)

\* C13: no plan of an ExtractPricing response has billing period unknown
\* (or empty) together with a non-zero monthly equivalent amount.
C13_NoEquivalentOnUnknown ==
    (pc = "done" /\ req.kind = "extract") =>
        \A i \in 1..Len(resp.Plans) :
            ~ /\ resp.Plans[i].BillingPeriod \in {<<>>, sUnknown}
              /\ resp.Plans[i].MonthlyEquivalentAmount # 0

\* C14: in every ExtractPricing response without error, detected_periods
\* has no duplicates and lists monthly (yearly) if and only if some plan of
\* the response has that billing period.
C14_PeriodsMatchPlans ==
    (pc = "done" /\ req.kind = "extract" /\ resp.Error = <<>>) =>
        /\ \A i, j \in 1..Len(resp.DetectedPeriods) :
               i # j => resp.DetectedPeriods[i] # resp.DetectedPeriods[j]
        /\ \A p \in {sMonthly, sYearly} :
               (\E i \in 1..Len(resp.DetectedPeriods) : resp.DetectedPeriods[i] = p)
                   <=> (\E i \in 1..Len(resp.Plans) : resp.Plans[i].BillingPeriod = p)

\* C14, its case: a response from the browser pass with both periods.
C14_Witness ==
    /\ pc = "done"
    /\ resultFrom = "browser"
    /\ Len(resp.DetectedPeriods) = 2
    /\ \E i \in 1..Len(resp.Plans) : resp.Plans[i].BillingPeriod = sYearly
    /\ \E i \in 1..Len(resp.Plans) : resp.Plans[i].BillingPeriod = sMonthly

\* C15: render_used is true if and only if the browser pass was attempted
\* during the request, whether or not it failed or its result was adopted.
C15_RenderUsedIffAttempted ==
    (pc = "done" /\ req.kind = "extract") =>
        (resp.RenderUsed <=> browserPasses > 0)

\* C16: in the result of DiscoverPricingPage every candidate found by
\* probing a common path stands before every candidate found only through a
\* homepage link.
C16_ProbedBeforeLinked ==
    (pc = "done" /\ req.kind = "discover") =>
        \A i, j \in 1..Len(resp.PricingCandidates) :
            (/\ containsURL(probed, resp.PricingCandidates[j])
             /\ ~containsURL(probed, resp.PricingCandidates[i])) => j < i

\* C17: DiscoverPricingPage returns at most 5 candidates, no URL twice, in
\* non-increasing score order, none of them scoring below a candidate that
\* was found and left out; selected_pricing_url is present if and only if
\* the list is non-empty, and is then its first element.
C17_TopFiveByScore ==
    (pc = "done" /\ req.kind = "discover" /\ resp.Error = <<>>) =>
        LET c     == resp.PricingCandidates
            kept  == {c[i] : i \in 1..Len(c)}
            found == DOMAIN candidateScores
        IN  /\ Len(c) <= 5
            /\ \A i, j \in 1..Len(c) : i # j => c[i] # c[j]
            /\ \A i, j \in 1..Len(c) : i < j => candidateScores[c[i]] >= candidateScores[c[j]]
            /\ kept \subseteq found
            /\ \A o \in found \ kept : \A k \in kept : candidateScores[o] <= candidateScores[k]
            /\ found \ kept # {} => Len(c) = 5
            /\ resp.SelectedPricingURL # <<>> <=> c # <<>>
            /\ c # <<>> => resp.SelectedPricingURL = c[1]

\* C17, its case: more than five candidates were found, among them links of
\* the homepage, and five are returned.
C17_Witness ==
    /\ pc = "done"
    /\ req.kind = "discover"
    /\ Cardinality(DOMAIN candidateScores) > 5
    /\ Len(resp.PricingCandidates) = 5
    /\ ~containsURL(probed, resp.PricingCandidates[5])
    /\ resp.SelectedPricingURL = resp.PricingCandidates[1]


\* C18: a SavePlans call that returned without an error left, at its return,
\* exactly the documents of its own plans as the user's saved set (none of
\* the earlier ones), and its SavedCount is their number; whatever the delete
\* step answered and however two calls interleave.
C18_SaveReplaces ==
    \A c \in Calls :
        (spc[c] = "done" /\ sresp[c].Error = "") =>
            /\ atReturn[c] = {ConvertPlans(c, sreq[c])[i] : i \in 1..Len(sreq[c].plans)}
            /\ sresp[c].SavedCount = Len(sreq[c].plans)
            /\ Cardinality(atReturn[c]) = sresp[c].SavedCount


\* The steps an execution of ExtractPricing has left at most: every step of
\* it, and the expiry of the browser context, lowers this number.
EPRank ==
    LET base == CASE pc = "ep_validate" -> 20
                  [] pc = "ep_fetch" -> 19
                  [] pc = "ep_extract" -> 18
                  [] pc = "br_open" -> 17
                  [] pc = "br_load" -> 16
                  [] pc = "br_tabs" -> 15
                  [] pc = "br_monthly" -> 14 - attempt
                  [] pc = "br_yearly" -> 10 - attempt
                  [] pc = "br_extract" -> 6
                  [] pc = "ep_after_browser" -> 5
                  [] OTHER -> 0
    IN  2 * base + (IF ctxExpired THEN 0 ELSE 1)

\* C19: no unbounded retry.  Every step of an ExtractPricing execution brings
\* it nearer to its return (so it terminates), and on the way a tab is clicked
\* at most 2 times, a browser pass clicks at most 4 times, the extraction
\* capability is called at most 2 times and at most 1 browser pass is made.
C19_NoUnboundedRetry ==
    [][req.kind = "extract" =>
          /\ EPRank' < EPRank
          /\ EPRank' >= 0
          /\ clicks'["monthly"] <= 2
          /\ clicks'["yearly"] <= 2
          /\ clicks'["monthly"] + clicks'["yearly"] <= 4
          /\ llmCalls' <= 2
          /\ browserPasses' <= 1]_vars

\* C19 witness: an execution that returned after using all of it: both tabs
\* clicked twice, two extraction calls, one browser pass.
C19_Witness ==
    /\ req.kind = "extract"
    /\ pc = "done"
    /\ clicks["monthly"] = 2
    /\ clicks["yearly"] = 2
    /\ llmCalls = 2
    /\ browserPasses = 1


\* The requests inside their browser pass.
InPass(r) == cpc[r] \in {"br_load", "br_work", "br_extract"}

\* C20: the session of a browser pass is released when the pass has ended, on
\* each of its exits, so before ExtractPricing returns; every live session is
\* the session of a request inside its pass; no session is used by two
\* requests; and a step of one request changes nothing of another request.
C20_SessionScopedToRequest ==
    [][ /\ \A r \in Reqs :
             /\ cpc'[r] \in {"after", "returned"} => csess'[r] \notin live'
             /\ InPass(r)' => csess'[r] \in live'
        /\ \A id \in live' : \E r \in Reqs : InPass(r)' /\ csess'[r] = id
        /\ \A r1, r2 \in Reqs :
             /\ (r1 # r2 /\ InPass(r1)' /\ InPass(r2)') => csess'[r1] # csess'[r2]
             /\ \A id \in 1..MaxSessions :
                  (<<id, r1>> \in ranOn' /\ <<id, r2>> \in ranOn') => r1 = r2
        /\ \A r \in Reqs :
             cpc'[r] = cpc[r] =>
                /\ csess'[r] = csess[r]
                /\ cexit'[r] = cexit[r]
                /\ (cexpired'[r] = cexpired[r] \/ InPass(r)) ]_vars

\* C20 witness: both requests were inside their passes at once, one pass has
\* ended by a failure and its request returned while the other, past a
\* timeout, still holds its session.
C20_Witness ==
    /\ cpc["r1"] = "returned"
    /\ cexit["r1"] \in {"load_failed", "extraction_failed"}
    /\ csess["r1"] # 0
    /\ cpc["r2"] = "br_extract"
    /\ cexpired["r2"]
    /\ <<csess["r2"], "r2">> \in ranOn
    /\ csess["r2"] < csess["r1"]


\* C21: a browser session exists only in an execution whose static
\* extraction succeeded, whose page showed a billing toggle and whose
\* deduplicated static plans name at most one billing period; an execution
\* that ended at validation, fetch, content length or extraction, or without
\* a toggle, or with two periods, has no session; and when the execution
\* has returned, toggle_detected_single_period is among the recorded warnings
\* exactly when the browser pass was entered.
C21_BrowserPassGate ==
    req.kind = "extract" =>
        /\ (session # "none") <=> (browserPasses > 0)
        /\ browserPasses > 0 =>
              /\ failedAt = ""
              /\ hasToggle
              /\ Cardinality(PeriodSet(staticPlans)) <= 1
              /\ "toggle_detected_single_period" \in Codes(recorded)
        /\ (failedAt # "" \/ (pc = "done" /\ ~hasToggle)
              \/ (pc = "done" /\ Cardinality(PeriodSet(staticPlans)) = 2)) =>
              /\ session = "none"
              /\ "toggle_detected_single_period" \notin Codes(recorded)
        /\ pc = "done" =>
              ("toggle_detected_single_period" \in Codes(recorded) <=> browserPasses > 0)

\* C21 witness: an execution that entered the browser pass with one static
\* period and has returned.
C21_Witness ==
    /\ req.kind = "extract"
    /\ pc = "done"
    /\ browserPasses = 1
    /\ Len(staticPeriods) = 1
    /\ "toggle_detected_single_period" \in Codes(recorded)


\* The text has a billing phrase of the side (check 2 of verifyStateChange).
HasIndicator(text, side) ==
    \E ind \in (IF side = "monthly" THEN monthlyIndicators ELSE yearlyIndicators) :
        Contains(ToLower(text), ind)

\* The browser pass is past the clicks of the side.
PastSide(side) ==
    /\ browserPasses > 0
    /\ pc \in (IF side = "monthly" THEN {"br_yearly"} ELSE {})
                 \cup {"br_extract", "ep_after_browser", "done"}

\* C22: a click after which the captured text is the previous text and has no
\* billing phrase of the clicked side is never verified; a located tab left
\* unverified was clicked twice and is reported with the side's
\* toggle_failed warning.
C22_NoOpClickNotVerified ==
    /\ monthlyClicked =>
          ~(monthlyText = defaultText /\ ~HasIndicator(TextOf(monthlyText), "monthly"))
    /\ yearlyClicked =>
          ~(yearlyText = defaultText /\ ~HasIndicator(TextOf(yearlyText), "yearly"))
    /\ (PastSide("monthly") /\ monthlyTab # "" /\ ~monthlyClicked) =>
          /\ clicks["monthly"] = 2
          /\ "monthly_toggle_failed" \in Codes(recorded)
    /\ (PastSide("yearly") /\ yearlyTab # "" /\ ~yearlyClicked) =>
          /\ clicks["yearly"] = 2
          /\ "yearly_toggle_failed" \in Codes(recorded)


\* The text the page showed immediately before the click of the side: the
\* text of the verified monthly click for the yearly click, else the default.
PreClickText(side) ==
    IF side = "yearly" /\ monthlyClicked THEN TextOf(monthlyText) ELSE TextOf(defaultText)

\* C23: at every click the pass is about to make, whatever text the capture
\* after it returns, a similarity below 0.95 to the text shown immediately
\* before the click is enough for verifyStateChange, as called at lines 453
\* and 464, to verify the click; the length of the captured text plays no part.
C23_TextChangeSuffices ==
    \A side \in {"monthly", "yearly"} :
        (pc = PcOf(side) /\ TabOf(side) # "" /\ attempt < maxRetries /\ ~ctxExpired) =>
            \A t \in CapturedTexts :
                SimilarityBelow95(textSimilarity(PreClickText(side), TextOf(t))) =>
                    verifyStateChange(TextOf(t), TextOf(defaultText), side, FALSE, FALSE)


\* How often the code stands in the list of warnings.
CountOf(w, code) == Cardinality({i \in 1..Len(w) : w[i] = code})

\* The outcome the pass recorded for a side whose clicks are over.
SideOutcome(tab, clicked, notFound, failed) ==
    /\ CountOf(recorded, notFound) = (IF tab = "" THEN 1 ELSE 0)
    /\ CountOf(recorded, failed) = (IF tab # "" /\ ~clicked THEN 1 ELSE 0)

\* C24: once the clicks of a side are over, the pass has recorded exactly one
\* outcome for it: toggle_not_found once when no tab was located,
\* toggle_failed once when a tab was located and not verified, neither when
\* it was verified; a pass that loaded its page always reaches the second
\* extraction, and no_toggle_clicked is recorded, once, exactly when neither
\* side was verified.
C24_OneOutcomePerSide ==
    /\ (PastSide("monthly") /\ defaultText # "") =>
           SideOutcome(monthlyTab, monthlyClicked, "monthly_toggle_not_found",
                       "monthly_toggle_failed")
    /\ (PastSide("yearly") /\ defaultText # "") =>
           SideOutcome(yearlyTab, yearlyClicked, "yearly_toggle_not_found",
                       "yearly_toggle_failed")
    /\ (browserPasses > 0 /\ defaultText # "" /\ pc \in {"ep_after_browser", "done"}) =>
           /\ llmCalls = 2
           /\ CountOf(recorded, "no_toggle_clicked")
                 = (IF ~monthlyClicked /\ ~yearlyClicked THEN 1 ELSE 0)

\* C24 witness: a returned execution whose pass found no monthly tab and
\* clicked a yearly tab twice without verifying it.
C24_Witness ==
    /\ pc = "done"
    /\ defaultText # ""
    /\ monthlyTab = ""
    /\ yearlyTab # ""
    /\ ~yearlyClicked
    /\ clicks["yearly"] = 2


\* C25: the content a browser pass hands to the extraction has at least one
\* labelled section: MONTHLY exactly when the monthly click was verified,
\* YEARLY exactly when the yearly click was verified, DEFAULT exactly when
\* neither was; no yearly click comes before the monthly clicks are over, and
\* the pass calls the extraction once, after both.
C25_LabelledSections ==
    /\ (browserPasses > 0 /\ defaultText # "" /\ pc \in {"ep_after_browser", "done"}) =>
           /\ sections # <<>>
           /\ "MONTHLY" \in Codes(sections) <=> monthlyClicked
           /\ "YEARLY" \in Codes(sections) <=> yearlyClicked
           /\ "DEFAULT" \in Codes(sections) <=> (~monthlyClicked /\ ~yearlyClicked)
           /\ llmCalls = 2
    /\ pc \in {"br_open", "br_load", "br_tabs", "br_monthly"} => clicks["yearly"] = 0
    /\ pc \in {"br_open", "br_load", "br_tabs", "br_monthly", "br_yearly", "br_extract"} =>
           llmCalls = 1


\* The selector findBillingTabs is to answer for a side, given the retained
\* scores of the candidates: none when no score is positive, else the first
\* candidate with the greatest score.
FirstBest(tabs, score) ==
    IF \A i \in 1..Len(tabs) : score[i] <= 0 THEN ""
    ELSE LET k == CHOOSE k \in 1..Len(tabs) :
                      /\ \A i \in 1..Len(tabs) : score[i] <= score[k]
                      /\ \A i \in 1..(k - 1) : score[i] < score[k]
         IN  tabs[k].Selector

\* C26: in findBillingTabs no candidate keeps a positive score on both sides
\* (of two positive scores only a greater one is kept), so no candidate is
\* the tab of both sides; the tab of a side is the first candidate with the
\* greatest retained score of the side, and a side without a positive
\* retained score gets no tab.
C26_OneSidePerCandidate ==
    tpc = "done" =>
        LET raw == [i \in 1..Len(tabsIn) |-> TabScoresBothKept(tabsIn[i])]
            kept == [i \in 1..Len(tabsIn) |-> TabScores(tabsIn[i])]
        IN  /\ \A i \in 1..Len(tabsIn) :
                 /\ kept[i].monthly = 0 \/ kept[i].yearly = 0
                 /\ kept[i].monthly \in {0, raw[i].monthly}
                 /\ kept[i].yearly \in {0, raw[i].yearly}
                 /\ raw[i].monthly > raw[i].yearly => kept[i].monthly = raw[i].monthly
                 /\ raw[i].yearly > raw[i].monthly => kept[i].yearly = raw[i].yearly
            /\ tabsOut.monthlySelector # "" =>
                 tabsOut.monthlySelector # tabsOut.yearlySelector
            /\ tabsOut.monthlySelector
                 = FirstBest(tabsIn, [i \in 1..Len(tabsIn) |-> kept[i].monthly])
            /\ tabsOut.yearlySelector
                 = FirstBest(tabsIn, [i \in 1..Len(tabsIn) |-> kept[i].yearly])

\* C26 witness: a candidate with positive scores on both sides stands first
\* and counts for the monthly side only, two later candidates tie above it
\* and the earlier of them is the monthly tab; the yearly side has no tab.
C26_Witness ==
    /\ tpc = "done"
    /\ Len(tabsIn) = 3
    /\ tabsIn[1].Selector = "button1"
    /\ tabsIn[2].Selector = "button3"
    /\ tabsIn[3].Selector = "button2"
    /\ tabsOut.monthlySelector = "button3"
    /\ tabsOut.yearlySelector = ""

\* The text of the candidate has a keyword of the list.
HasKeyword(text, keywords) == scoreTabText(text, keywords) > 0

\* C27: the candidate findBillingTabs answers as the monthly tab has a monthly
\* keyword in its text, and the one it answers as the yearly tab a yearly
\* keyword; the bonuses alone select nothing.
C27_SelectedTabHasKeyword ==
    tpc = "done" =>
        \A i \in 1..Len(tabsIn) :
            /\ tabsIn[i].Selector = tabsOut.monthlySelector =>
                   HasKeyword(tabsIn[i].Text, monthlyKeywords)
            /\ tabsIn[i].Selector = tabsOut.yearlySelector =>
                   HasKeyword(tabsIn[i].Text, yearlyKeywords)


\* The URL validateURL is given by the request: the URL as passed for
\* ExtractPricing, the normalised (or default) website for
\* DiscoverPricingPage.
RequestURL == IF req.kind = "extract" THEN req.url ELSE websiteURL

\* C28: a request whose URL validateURL rejected has made no HEAD, GET,
\* navigation or extraction call, never makes one, and is answered with the
\* error alone; every such operation of a request comes after the one
\* validateURL call of the request, on the request's URL, answered nil.
C28_ValidationFirst ==
    /\ (validated # <<>> /\ validateURL(validated[1]) # "nil") =>
           /\ pc = "done"
           /\ failedAt = "validation"
           /\ netOps = <<>>
           /\ llmCalls = 0
           /\ browserPasses = 0
           /\ resp.Error # <<>>
           /\ resp = [NoResponse EXCEPT !.Error = resp.Error]
    /\ netOps # <<>> =>
           /\ Len(validated) = 1
           /\ validated[1] = RequestURL
           /\ validateURL(validated[1]) = "nil"
    /\ failedAt = "validation" => validateURL(RequestURL) # "nil"

\* C28 witness: ExtractPricing answered a rejected URL.
C28_Witness ==
    /\ req.kind = "extract"
    /\ pc = "done"
    /\ validated # <<>>
    /\ validateURL(req.url) # "nil"


\* C29: a SavePlans call that returned a response with an error (invalid user
\* id, failed insert), and during which no other call wrote to the
\* collection, left the user's saved set, as GetSavedPlans returns it, as it
\* was when the call began.
C29_ErrorLeavesSavedPlans ==
    \A c \in Calls :
        (spc[c] = "done" /\ sresp[c].Error # "" /\ ~between[c]) =>
            atReturn[c] = atStart[c]


\* The set of lower-cased words of a text.
WordSet(text) ==
    LET ws == Fields(ToLower(text)) IN {ws[i] : i \in 1..Len(ws)}

\* C30: textSimilarity of two texts lies in [0, 1], is 1 only for texts with
\* the same set of lower-cased words, and is the same in both orders of its
\* arguments.  A result is a pair <<numerator, denominator>>.
C30_SimilarityWellFormed ==
    tpc = "done" =>
        LET ab == simOut[1]
            ba == simOut[2]
        IN  /\ ab[2] > 0
            /\ 0 <= ab[1]
            /\ ab[1] <= ab[2]
            /\ ab[1] = ab[2] => WordSet(simIn[1]) = WordSet(simIn[2])
            /\ ab[1] * ba[2] = ba[1] * ab[2]

=============================================================================
